---- MODULE Spec2Model ----
(***************************************************************************)
(* Model of src/app.js, the client-side script of the EBIOS RM risk        *)
(* management tool: the in-memory list of analyses, the two localStorage   *)
(* items it is persisted to, the rendered analysis list and missions table *)
(* (whose event handlers capture objects and array indices), and the       *)
(* handlers that mutate them.                                              *)
(*                                                                         *)
(* JavaScript values are modelled as follows.                              *)
(*   - An id is a natural number; 0 stands for a missing (falsy) id and    *)
(*     uid() returns a number that is in use nowhere.                      *)
(*   - An optional string field holds Undef when the property is absent.   *)
(*   - A value whose type varies (an element of `analyses`, a parsed       *)
(*     document) is a record tagged by its field t: "obj", "null", "arr",  *)
(*     and "num" for a number or a string.                                 *)
(*   - The handlers of a rendered row keep a reference to the analysis     *)
(*     object the row was built for: rows.a is the position that object    *)
(*     has in the list now, 0 once it is no longer in the list (a parsed   *)
(*     document is made of new objects).                                   *)
(*   - A handler runs to completion (single-threaded); an exception ends   *)
(*     it where it is thrown, and what was assigned before stays assigned. *)
(* The page is the single-page version: every element the script looks up  *)
(* exists.                                                                 *)
(***************************************************************************)
EXTENDS Integers, Sequences, FiniteSets, TLC

VARIABLES
  analyses,       \* app.js:10   the `analyses` binding (a tagged value)
  currentIndex,   \* app.js:11   index (0-based) of the current analysis, -1 if none
  lsAnalyses,     \* localStorage item 'ebiosAnalyses'
  lsCurrentId,    \* localStorage item 'ebiosCurrentAnalysisId' (0: no item)
  storageFull,    \* localStorage.setItem throws (quota exceeded, storage disabled)
  live,           \* init got as far as binding the handlers of the page
  listLen,        \* number of items rendered in #analysis-list
  rows,           \* rows rendered in #missions-body, with what their closures captured
  exported,       \* content of the last file written by the export button
  last,           \* how the last handler ended: "ok", "declined", "alert", "throw"
  srov,           \* a source/objective couple of data.srov, its pertinence cell, its chart edge
  ppc,            \* a stakeholder of data.ppc and the derived cells of its row
  graph,          \* data.missions / data.events of the Atelier 1 graph and its supportStats
  gapAct,         \* data.gap, data.actionsGap and the import modal (type, items, selections)
  gapData,        \* data.gap of the current analysis, in memory and as persisted
  mitre,          \* the lines of a technique catalogue and the library parsed from them
  carto,          \* the collections of Atelier 3 with what they refer to, and the options
                  \* the cartography and strategies tables captured when last rendered
  supp,           \* the support objects of the missions table: the heap of objects, the
                  \* supports of each mission and what the rendered rows captured
  riskModal,      \* mitreLibrary, the item 'ebiosMitreLibrary', and the requests to open
                  \* the risk modal with their pending fetch
  risques,        \* data.so (operational scenarios and their risks) and data.actionsRisques
  charts,         \* what the charts and the action plan last drew
  buttons         \* the click handlers bound to #add-ppc-btn and #add-strategy-btn

\* The state of the later ateliers, which the handlers of the list and of
\* Atelier 1 to 3 above leave alone.
later == <<supp, riskModal, risques, charts, buttons>>

ateliers == <<graph, gapAct, gapData, mitre, carto, later>>

vars == <<analyses, currentIndex, lsAnalyses, lsCurrentId, storageFull, live,
          listLen, rows, exported, last, srov, ppc, ateliers>>

----------------------------------------------------------------------------
(* Bounds of the model *)

MaxAnalyses == 2
MaxMissions == 2
MaxEvents == 1
MaxUid == 9
MaxAnalysisUid == 2

----------------------------------------------------------------------------
(* Values *)

Undef == "undefined"
NoId == 0
Null == [t |-> "null"]
Num == [t |-> "num"]
Arr(items) == [t |-> "arr", items |-> items]
EmptyList == Arr(<<>>)

NoItem == [t |-> "none"]
Garbage == [t |-> "text", ok |-> FALSE]
Text(v) == [t |-> "text", ok |-> TRUE, json |-> v]

NoRows == [a |-> 0, ms |-> <<>>]

Obj(id, title, md, ms, es) ==
  [t |-> "obj", id |-> id, title |-> title,
   data |-> [missionDescription |-> md, missions |-> ms, events |-> es]]

IsObj(v) == v.t = "obj"

\* A stored scalar: a number, a string of digits, or anything parseInt makes
\* NaN of (a missing property, null, a text without leading digits).
IntV(n) == [t |-> "int", n |-> n]
StrV(n) == [t |-> "str", n |-> n]
NaN == [t |-> "nan", n |-> 0]

NoCell == [p |-> 0, bucket |-> 0]
NoCouple == [item |-> [motivation |-> NaN, ressources |-> NaN], cell |-> NoCell, edge |-> NoCell]

NoCells == [expo |-> 0, niveau |-> 0, indice |-> 0]
NoStakeholder ==
  [item |-> [dependance |-> NaN, penetration |-> NaN, maturite |-> NaN, confiance |-> NaN],
   cells |-> NoCells]

\* No mission, no event, and a graph that was not drawn yet.
NoGraph == [missions |-> <<>>, events |-> <<>>, stats |-> <<>>, drawn |-> FALSE]

\* No requirement, no action row, and the import modal closed.
NoGapActions ==
  [gap |-> <<>>, actionsGap |-> <<>>, type |-> "null", items |-> <<>>, selections |-> <<>>]

\* No analysis selected, hence no requirement, and no alert shown.
NoGapData == [selected |-> FALSE, gap |-> <<>>, saved |-> <<>>, alerted |-> FALSE]

\* A catalogue without lines, not parsed.
NoCatalogue == [header |-> <<>>, rows |-> <<>>, library |-> <<>>, parsed |-> FALSE]

\* An analysis without stakeholders, strategies, supports, events or couples.
NoCarto ==
  [supports |-> <<>>, events |-> <<>>, couples |-> <<>>, stakeholders |-> <<>>,
   strategies |-> <<>>, actionsParties |-> <<>>,
   supportOptions |-> <<>>, missionOptions |-> <<>>, ppOptions |-> <<>>, eventOptions |-> <<>>]

\* No support object, no mission row.
NoSupports == [heap |-> <<>>, missions |-> <<>>, shown |-> <<>>]

\* No catalogue in memory or in storage, no request to open the risk modal.
NoRiskModal == [library |-> <<>>, lsLibrary |-> NoItem, reqs |-> <<>>, shown |-> FALSE]

\* No operational scenario, no action row for a risk.
NoRisques == [so |-> <<>>, actionsRisques |-> <<>>]

\* Nothing drawn.
NoCharts ==
  [gap |-> [key \in {"applique", "partiel", "non", "nonApp"} |-> 0],
   atelier3 |-> [n |-> 0, sumExpo |-> 0, sumNiveau |-> 0],
   atelier4 |-> [lvl \in 1..4 |-> 0], plan |-> <<>>, drawn |-> {}]

\* A page without the buttons, before init.
NoButtons ==
  [inPage |-> [others |-> FALSE, ppc |-> FALSE, strategy |-> FALSE],
   listener |-> [ppc |-> FALSE, strategy |-> FALSE],
   onclick |-> [ppc |-> FALSE, strategy |-> FALSE], setup |-> FALSE]

IdleLater ==
  /\ supp = NoSupports
  /\ riskModal = NoRiskModal
  /\ risques = NoRisques
  /\ charts = NoCharts
  /\ buttons = NoButtons

\* The later ateliers before anything was entered in them.
IdleAteliers ==
  /\ IdleLater
  /\ graph = NoGraph
  /\ gapAct = NoGapActions
  /\ gapData = NoGapData
  /\ mitre = NoCatalogue
  /\ carto = NoCarto

Range(s) == {s[i] : i \in 1..Len(s)}

SeqRemoveAt(s, i) == [j \in 1..(Len(s) - 1) |-> IF j < i THEN s[j] ELSE s[j + 1]]

----------------------------------------------------------------------------
(* uid() *)

\* Ids that documents offered to the import button carry.
DocIds == {1}

\* The n-th smallest number of 1..max that is not in used.
NthFree(used, max, n) ==
  LET free == (1..max) \ used
  IN CHOOSE x \in free : Cardinality({y \in free : y < x}) = n - 1

NumFree(used, max) == Cardinality((1..max) \ used)

\* uid(): an id nothing else carries (the n-th one a handler draws).
uid(used, n) == NthFree(used, MaxUid, n)

\* uid() returns a string no other call returns, and the program compares the
\* id of an analysis only with ids of analyses, the id of a mission or of an
\* event only with ids of missions or events: the two kinds are numbered apart.
AnalysisIdsOfValue(v) ==
  IF v.t = "arr" THEN {x.id : x \in {y \in Range(v.items) : IsObj(y)}}
  ELSE IF IsObj(v) THEN {v.id} ELSE {}

ItemIdsOfElem(v) ==
  IF IsObj(v)
    THEN {m.id : m \in Range(v.data.missions)}
           \cup {e.id : e \in Range(v.data.events)}
           \cup {e.missionId : e \in Range(v.data.events)}
    ELSE {}

ItemIdsOfValue(v) ==
  IF v.t = "arr" THEN UNION {ItemIdsOfElem(x) : x \in Range(v.items)} ELSE ItemIdsOfElem(v)

AnalysisIdsOfText(txt) == IF txt.t = "text" /\ txt.ok THEN AnalysisIdsOfValue(txt.json) ELSE {}

ItemIdsOfText(txt) == IF txt.t = "text" /\ txt.ok THEN ItemIdsOfValue(txt.json) ELSE {}

IdsOfRows(rws) ==
  UNION {{rws.ms[i].id} \cup Range(rws.ms[i].evs) : i \in 1..Len(rws.ms)}

----------------------------------------------------------------------------
(* JSON *)

\* JSON.stringify(v): a text that parses. The values modelled are made of
\* strings, integers, arrays and objects, which the text holds as they are; a
\* property that is absent (Undef) is absent from the text.
Stringify(v) == Text(v)

\* JSON.parse(text): the value, or a SyntaxError.
Parses(txt) == txt.t = "text" /\ txt.ok
Parse(txt) == txt.json

----------------------------------------------------------------------------
(* Persistence *)

\* The element analyses[i] of JavaScript (0-based); Null stands for undefined
\* as well: every use below treats the two alike.
At(items, i) == IF i >= 0 /\ i < Len(items) THEN items[i + 1] ELSE Null

\* persistCurrentAnalysisId: the id item after the call. A storage error is
\* caught and ignored, and nothing is written for an analysis without id.
persistCurrentAnalysisId(items, cur, lsId) ==
  LET sel == At(items, cur)
  IN IF IsObj(sel) /\ sel.id # NoId /\ ~storageFull THEN sel.id ELSE lsId

\* saveAnalyses(): the storage item after a successful call.
saveAnalyses(items) == Stringify(Arr(items))

----------------------------------------------------------------------------
(* Rendering: what it changes in the data, and what the elements capture *)

\* renderAnalysisList: one item per analysis, each capturing its index. Reading
\* analysis.title throws on a null element, after the items before it were added.
renderAnalysisList(items) ==
  LET nulls == {i \in 1..Len(items) : items[i] = Null}
  IN IF nulls = {}
       THEN [listLen |-> Len(items), threw |-> FALSE]
       ELSE [listLen |-> (CHOOSE i \in nulls : \A j \in nulls : i <= j) - 1,
             threw |-> TRUE]

\* renderMissionDescription: a description that is not a string becomes ''.
renderMissionDescription(a) ==
  IF a.data.missionDescription = Undef
    THEN [a EXCEPT !.data.missionDescription = ""]
    ELSE a

\* A variant of the normalisation that gives every mission an id from uid().
NormaliseMissionsAfresh(ms, used) ==
  [i \in 1..Len(ms) |-> [ms[i] EXCEPT !.id = uid(used, i)]]

\* The missions of renderMissionsTable's normalisation: a mission without id
\* gets one from uid().
NormaliseMissions(ms, used) ==
  [i \in 1..Len(ms) |->
     IF ms[i].id = NoId
       THEN [ms[i] EXCEPT !.id = uid(used, Cardinality({j \in 1..i : ms[j].id = NoId}))]
       ELSE ms[i]]

EventIdsOf(es, mid) ==
  LET mine == SelectSeq(es, LAMBDA e : e.missionId = mid)
  IN [i \in 1..Len(mine) |-> mine[i].id]

\* renderMissionsTable on the analysis a at position pos of the list: the
\* analysis after the normalisation, and the rows built, each with the id of
\* the mission object and the ids of the event objects its handlers captured
\* (the index a row captured is its position in the table, less one). A
\* table without rows has no handler, hence captures nothing.
renderMissionsTable(a, pos, used) ==
  LET ms == NormaliseMissions(a.data.missions, used)
  IN [a |-> [a EXCEPT !.data.missions = ms],
      rows |-> IF ms = <<>> THEN NoRows
               ELSE [a |-> pos,
                     ms |-> [i \in 1..Len(ms) |->
                               [id |-> ms[i].id,
                                evs |-> EventIdsOf(a.data.events, ms[i].id)]]]]

\* A variant of selectAnalysis in which a failed write of the selected id is
\* not caught: the call ends there, with the list as it was rendered.
selectAnalysisUncaught(items, index, lsId, rws, used) ==
  LET list == renderAnalysisList(items)
      analysis == At(items, index)
      base == [items |-> items, cur |-> index, lsId |-> lsId,
               listLen |-> list.listLen, rows |-> rws, threw |-> FALSE]
  IN IF storageFull /\ IsObj(analysis) /\ analysis.id # NoId
       THEN [base EXCEPT !.listLen = listLen, !.threw = TRUE]
     ELSE IF list.threw THEN [base EXCEPT !.threw = TRUE]
     ELSE IF analysis = Null THEN base
     ELSE IF ~IsObj(analysis) THEN [base EXCEPT !.threw = TRUE]
     ELSE LET r == renderMissionsTable(renderMissionDescription(analysis), index + 1, used)
          IN [base EXCEPT !.lsId = persistCurrentAnalysisId(items, index, lsId),
                          !.items = [items EXCEPT ![index + 1] = r.a],
                          !.rows = r.rows]

\* selectAnalysis(index), given the list, the stored id and the rendered rows
\* before the call; used: the ids uid() cannot return. The result names what
\* the call leaves behind and whether it threw.
selectAnalysis(items, index, lsId, rws, used) ==
  LET id == persistCurrentAnalysisId(items, index, lsId)
      list == renderAnalysisList(items)
      analysis == At(items, index)
      base == [items |-> items, cur |-> index, lsId |-> id,
               listLen |-> list.listLen, rows |-> rws, threw |-> FALSE]
  IN IF list.threw THEN [base EXCEPT !.threw = TRUE]
     ELSE IF analysis = Null THEN base
     ELSE IF ~IsObj(analysis) THEN [base EXCEPT !.threw = TRUE]
     ELSE LET r == renderMissionsTable(renderMissionDescription(analysis), index + 1, used)
          IN [base EXCEPT !.items = [items EXCEPT ![index + 1] = r.a],
                          !.rows = r.rows]

----------------------------------------------------------------------------
(* State shared by the handlers *)

\* The array `analyses` holds while the page is live.
Items == analyses.items

\* Ids uid() cannot return for an analysis: those the page, the storage, an
\* exported file or an importable document already carry.
UsedAnalysisIds ==
  AnalysisIdsOfValue(analyses) \cup AnalysisIdsOfText(lsAnalyses)
    \cup AnalysisIdsOfText(exported) \cup {lsCurrentId} \cup DocIds

\* Ids uid() cannot return for a mission or an event.
UsedIds ==
  ItemIdsOfValue(analyses) \cup ItemIdsOfText(lsAnalyses) \cup ItemIdsOfText(exported)
    \cup IdsOfRows(rows)

\* Enough fresh ids are left for a handler that draws n of them (bound).
CanDraw(n) == NumFree(UsedIds, MaxUid) >= n

CanDrawAnalysisId == NumFree(UsedAnalysisIds, MaxAnalysisUid) >= 1

Res(r) == IF r.threw THEN "throw" ELSE "ok"

\* What a handler leaves behind: r names the list, the selection, the two
\* storage items, the rendered list and rows.
Commit(r, outcome) ==
  /\ analyses' = Arr(r.items)
  /\ currentIndex' = r.cur
  /\ lsAnalyses' = r.lsA
  /\ lsCurrentId' = r.lsId
  /\ listLen' = r.listLen
  /\ rows' = r.rows
  /\ last' = outcome

Keep == UNCHANGED <<storageFull, live, exported, srov, ppc, ateliers>>

\* The state as a handler finds it, with the list replaced by items and the
\* rows' reference to their analysis object by rws.
Now(items, rws) ==
  [items |-> items, cur |-> currentIndex, lsA |-> lsAnalyses, lsId |-> lsCurrentId,
   listLen |-> listLen, rows |-> rws, threw |-> FALSE]

Threw(r) == [r EXCEPT !.threw = TRUE]

\* The tail shared by the handlers that change the list: after a successful
\*   saveAnalyses(); currentIndex = index; renderAnalysisList(); selectAnalysis(currentIndex);
SavedThenSelect(items, rws, index, used) ==
  LET list == renderAnalysisList(items)
      saved == [Now(items, rws) EXCEPT !.lsA = saveAnalyses(items), !.cur = index]
  IN IF list.threw
       THEN [saved EXCEPT !.listLen = list.listLen, !.threw = TRUE]
       ELSE LET sel == selectAnalysis(items, index, lsCurrentId, rws, used)
            IN [saved EXCEPT !.items = sel.items, !.cur = sel.cur, !.lsId = sel.lsId,
                             !.listLen = sel.listLen, !.rows = sel.rows,
                             !.threw = sel.threw]

----------------------------------------------------------------------------
(* Page load *)

\* What localStorage may hold when the page is first opened.
InitialStorage == {NoItem, Garbage, Text(Null)}

Init ==
  /\ analyses = EmptyList
  /\ currentIndex = -1
  /\ lsAnalyses \in InitialStorage
  /\ lsCurrentId = NoId
  /\ storageFull = FALSE
  /\ live = FALSE
  /\ listLen = 0
  /\ rows = NoRows
  /\ exported = NoItem
  /\ last = "ok"
  /\ srov = NoCouple
  /\ ppc = NoStakeholder
  /\ IdleAteliers

\* loadAnalyses: the parsed item, [] when there is none or it does not parse.
loadAnalyses(item) == IF Parses(item) THEN Parse(item) ELSE EmptyList

\* init's search for the stored id: analyses.findIndex(a => a && a.id === savedId),
\* 0-based, -1 when there is no stored id or no analysis carries it.
SavedIndex(items, savedId) ==
  LET hits == {i \in 1..Len(items) : IsObj(items[i]) /\ items[i].id = savedId}
  IN IF savedId = NoId \/ hits = {} THEN -1
     ELSE (CHOOSE i \in hits : \A j \in hits : i <= j) - 1

\* The page is left (beforeunload runs persistCurrentAnalysisId when init had
\* registered it) and loaded again: init. A value that is not an array has no
\* forEach, so renderAnalysisList throws before the handlers are bound.
PageLoad ==
  LET lsId == IF live THEN persistCurrentAnalysisId(Items, currentIndex, lsCurrentId)
                      ELSE lsCurrentId
      loaded == loadAnalyses(lsAnalyses)
  IN /\ UNCHANGED <<lsAnalyses, storageFull, exported, srov, ppc, ateliers>>
     /\ IF loaded.t # "arr"
          THEN /\ analyses' = loaded
               /\ currentIndex' = -1
               /\ lsCurrentId' = lsId
               /\ listLen' = 0
               /\ rows' = NoRows
               /\ live' = FALSE
               /\ last' = "throw"
          ELSE LET items == loaded.items
                   list == renderAnalysisList(items)
                   savedIndex == SavedIndex(items, lsId)
                   index == IF savedIndex >= 0 THEN savedIndex ELSE 0
               IN IF list.threw
                    THEN /\ analyses' = loaded
                         /\ currentIndex' = -1
                         /\ lsCurrentId' = lsId
                         /\ listLen' = list.listLen
                         /\ rows' = NoRows
                         /\ live' = FALSE
                         /\ last' = "throw"
                  ELSE IF Len(items) = 0
                    THEN /\ analyses' = loaded
                         /\ currentIndex' = -1
                         /\ lsCurrentId' = lsId
                         /\ listLen' = 0
                         /\ rows' = NoRows
                         /\ live' = TRUE
                         /\ last' = "ok"
                  ELSE LET sel == selectAnalysis(items, index, lsId, NoRows, UsedIds)
                       IN /\ analyses' = Arr(sel.items)
                          /\ currentIndex' = sel.cur
                          /\ lsCurrentId' = sel.lsId
                          /\ listLen' = sel.listLen
                          /\ rows' = sel.rows
                          /\ live' = TRUE
                          /\ last' = Res(sel)

\* The storage stops or resumes accepting writes (quota, private browsing).
StorageFills ==
  /\ ~storageFull
  /\ storageFull' = TRUE
  /\ UNCHANGED <<analyses, currentIndex, lsAnalyses, lsCurrentId, live, listLen, rows,
                 exported, last, srov, ppc, ateliers>>

StorageFrees ==
  /\ storageFull
  /\ storageFull' = FALSE
  /\ UNCHANGED <<analyses, currentIndex, lsAnalyses, lsCurrentId, live, listLen, rows,
                 exported, last, srov, ppc, ateliers>>

----------------------------------------------------------------------------
(* The analysis list: setupAnalysisControls and the items of the list *)

\* s.splice(idx, 1) for a 0-based idx >= 0: nothing goes when idx is past the end.
Splice(s, idx) == IF idx < Len(s) THEN SeqRemoveAt(s, idx + 1) ELSE s

\* Where the analysis the rows captured is after analyses.splice(idx, 1).
RowsAfterSplice(idx) ==
  [rows EXCEPT !.a = IF rows.a = idx + 1 THEN 0
                     ELSE IF rows.a > idx + 1 THEN rows.a - 1 ELSE rows.a]

\* The analysis the "new analysis" button builds.
NewAnalysisObject(id) == Obj(id, "Nouvelle analyse", Undef, <<>>, <<>>)

\* Click on #new-analysis-btn.
NewAnalysis ==
  /\ live
  /\ Len(Items) < MaxAnalyses
  /\ CanDrawAnalysisId
  /\ Keep
  /\ LET id == NthFree(UsedAnalysisIds, MaxAnalysisUid, 1)
         items == Append(Items, NewAnalysisObject(id))
     IN IF storageFull
          THEN Commit(Now(items, rows), "throw")
          ELSE LET r == SavedThenSelect(items, rows, Len(items) - 1, UsedIds)
               IN Commit(r, Res(r))

\* Click on the item of the analysis list that was rendered for index.
ClickAnalysis(index) ==
  /\ live
  /\ index < listLen
  /\ CanDraw(MaxMissions)
  /\ Keep
  /\ LET sel == selectAnalysis(Items, index, lsCurrentId, rows, UsedIds)
     IN Commit([Now(sel.items, sel.rows) EXCEPT !.cur = sel.cur, !.lsId = sel.lsId,
                                                 !.listLen = sel.listLen],
               Res(sel))

\* Click on #delete-btn, the confirmation answered by confirmed.
DeleteAnalysis(confirmed) ==
  /\ live
  /\ CanDraw(MaxMissions)
  /\ Keep
  /\ IF currentIndex < 0 \/ ~confirmed
       THEN Commit(Now(Items, rows), "declined")
       ELSE LET items == Splice(Items, currentIndex)
                rws == RowsAfterSplice(currentIndex)
            IN IF storageFull
                 THEN Commit(Now(items, rws), "throw")
                 ELSE IF Len(items) > 0
                   THEN LET r == SavedThenSelect(items, rws, 0, UsedIds)
                        IN Commit(r, Res(r))
                   ELSE Commit([Now(items, rws) EXCEPT !.lsA = saveAnalyses(items),
                                                       !.cur = -1, !.listLen = 0],
                               "ok")

\* Click on #export-btn: the file written. JSON.stringify(undefined) is not a
\* document and reading the title of undefined or null throws before the download.
ExportAnalysis ==
  /\ live
  /\ UNCHANGED <<analyses, currentIndex, lsAnalyses, lsCurrentId, storageFull, live,
                 listLen, rows, srov, ppc, ateliers>>
  /\ IF currentIndex < 0
       THEN /\ last' = "declined"
            /\ UNCHANGED exported
       ELSE IF At(Items, currentIndex) = Null
         THEN /\ last' = "throw"
              /\ UNCHANGED exported
         ELSE /\ last' = "ok"
              /\ exported' = Stringify(At(Items, currentIndex))

\* A variant of Imported that puts a single object first.
ImportedFirst(items, json) ==
  IF json.t = "arr" THEN json.items
  ELSE IF json.t \in {"obj", "null"} THEN <<json>> \o items
  ELSE items

\* analyses after the first lines of reader.onload for a parsed document:
\* an array replaces the list, anything else of type 'object' (null included)
\* is pushed, any other value leaves the list alone.
Imported(items, json) ==
  IF json.t = "arr" THEN json.items
  ELSE IF json.t \in {"obj", "null"} THEN Append(items, json)
  ELSE items

\* reader.onload of #import-file for a file with content doc: whatever throws
\* inside the try block ends in alert('Fichier JSON invalide').
ImportFile(doc) ==
  /\ live
  /\ CanDraw(MaxMissions)
  /\ Keep
  /\ IF ~Parses(doc)
       THEN Commit(Now(Items, rows), "alert")
       ELSE LET json == Parse(doc)
                items == Imported(Items, json)
                rws == IF json.t = "arr" THEN [rows EXCEPT !.a = 0] ELSE rows
            IN /\ Len(items) <= MaxAnalyses
               /\ IF storageFull
                    THEN Commit(Now(items, rws), "alert")
                    ELSE LET r == SavedThenSelect(items, rws, Len(items) - 1, UsedIds)
                         IN Commit(r, IF r.threw THEN "alert" ELSE "ok")

----------------------------------------------------------------------------
(* Atelier 1: the missions table and its events *)

\* The tail shared by the handlers of the missions table, the list being items
\* after the handler's mutation:  saveAnalyses(); renderMissionsTable();
\* updateAtelier1Graph();  saveAnalyses throws when the storage refuses the
\* write, and the table then keeps the rows it had. renderMissionsTable empties
\* the table before it reads analyses[currentIndex].
SavedThenRender(items, used) ==
  LET saved == [Now(items, rows) EXCEPT !.lsA = saveAnalyses(items)]
      analysis == At(items, currentIndex)
  IN IF storageFull THEN Threw(Now(items, rows))
     ELSE IF ~IsObj(analysis) THEN Threw([saved EXCEPT !.rows = NoRows])
     ELSE LET r == renderMissionsTable(analysis, currentIndex + 1, used)
          IN [saved EXCEPT !.items = [items EXCEPT ![currentIndex + 1] = r.a],
                           !.rows = r.rows]

\* The mission the "add" button builds.
NewMission(id) == [id |-> id]

\* The event the "+ Évènement" button of a mission builds.
NewEvent(id, mid) == [id |-> id, missionId |-> mid, impact |-> 1]

\* Click on #add-mission-btn: the mission is pushed on analyses[currentIndex].
AddMission ==
  /\ live
  /\ IsObj(At(Items, currentIndex))
  /\ Len(At(Items, currentIndex).data.missions) < MaxMissions
  /\ CanDraw(1 + MaxMissions)
  /\ Keep
  /\ LET id == uid(UsedIds, 1)
         a == At(Items, currentIndex)
         b == [a EXCEPT !.data.missions = Append(@, NewMission(id))]
         r == SavedThenRender([Items EXCEPT ![currentIndex + 1] = b], UsedIds \cup {id})
     IN Commit(r, Res(r))

\* The delBtn handler of a row on the analysis a it captured, idx and mid being
\* the index and the mission id the row captured.
DeleteMissionIn(a, idx, mid) ==
  [a EXCEPT !.data.missions = Splice(@, idx),
            !.data.events = SelectSeq(@, LAMBDA ev : ev.missionId # mid)]

\* Click on the delete button of the k-th rendered row. (The rows of an
\* analysis that left the list are not followed.)
DeleteMission(k) ==
  /\ live
  /\ rows.a # 0
  /\ k \in 1..Len(rows.ms)
  /\ CanDraw(MaxMissions)
  /\ Keep
  /\ LET b == DeleteMissionIn(Items[rows.a], k - 1, rows.ms[k].id)
         r == SavedThenRender([Items EXCEPT ![rows.a] = b], UsedIds)
     IN Commit(r, Res(r))

\* Click on "+ Évènement" in the k-th rendered row.
AddEvent(k) ==
  /\ live
  /\ rows.a # 0
  /\ k \in 1..Len(rows.ms)
  /\ Len(Items[rows.a].data.events) < MaxEvents
  /\ CanDraw(1 + MaxMissions)
  /\ Keep
  /\ LET id == uid(UsedIds, 1)
         a == Items[rows.a]
         b == [a EXCEPT !.data.events = Append(@, NewEvent(id, rows.ms[k].id))]
         r == SavedThenRender([Items EXCEPT ![rows.a] = b], UsedIds \cup {id})
     IN Commit(r, Res(r))

\* analysis.data.events.findIndex(ev => ev.id === id), 0-based, -1 if none.
FindEvent(es, id) ==
  LET hits == {i \in 1..Len(es) : es[i].id = id}
  IN IF hits = {} THEN -1 ELSE (CHOOSE i \in hits : \A j \in hits : i <= j) - 1

\* Click on the remove button of the j-th event shown in the k-th rendered row.
RemoveEvent(k, j) ==
  /\ live
  /\ rows.a # 0
  /\ k \in 1..Len(rows.ms)
  /\ j \in 1..Len(rows.ms[k].evs)
  /\ CanDraw(MaxMissions)
  /\ Keep
  /\ LET a == Items[rows.a]
         idxEv == FindEvent(a.data.events, rows.ms[k].evs[j])
         b == [a EXCEPT !.data.events = Splice(@, idxEv)]
     IN IF idxEv < 0
          THEN Commit(Now(Items, rows), "ok")
          ELSE LET r == SavedThenRender([Items EXCEPT ![rows.a] = b], UsedIds)
               IN Commit(r, Res(r))

----------------------------------------------------------------------------
(* Atelier 2 and 3: scores and the cells derived from them *)

\* Values a document can carry in a score field (bound MaxStored).
MaxStored == 6
Stored == {NaN, StrV(2)} \cup {IntV(n) : n \in -1..MaxStored}

\* The options of the score selects.
Levels == 1..4

\* parseInt(v, 10).
parseInt(v) == IF v.t \in {"int", "str"} THEN IntV(v.n) ELSE NaN

\* v || 1 for a number v: NaN and 0 are falsy.
OrOne(v) == IF v.t = "nan" \/ v.n = 0 THEN 1 ELSE v.n

\* A variant of pertinenceBucket whose second threshold is strict.
pertinenceBucketStrict(p) ==
  IF p >= 13 THEN 4 ELSE IF p > 9 THEN 3 ELSE IF p >= 5 THEN 2 ELSE 1

\* pertinenceBucket of renderSROV.
pertinenceBucket(p) ==
  IF p >= 13 THEN 4 ELSE IF p >= 9 THEN 3 ELSE IF p >= 5 THEN 2 ELSE 1

\* pertinenceBucket of updateAtelier2Chart.
chartPertinenceBucket(p) ==
  IF p >= 13 THEN 4 ELSE IF p >= 9 THEN 3 ELSE IF p >= 5 THEN 2 ELSE 1

\* The normalisation of a couple in renderSROV.
NormaliseCouple(item) ==
  [item EXCEPT !.motivation = IntV(OrOne(parseInt(item.motivation))),
               !.ressources = IntV(OrOne(parseInt(item.ressources)))]

\* setPertinence / updatePertinenceCell: the text of the pertinence cell.
setPertinence(item) ==
  LET p == OrOne(item.motivation) * OrOne(item.ressources)
  IN [p |-> p, bucket |-> pertinenceBucket(p)]

\* The edge updateAtelier2Chart draws for a couple.
ChartEdge(item) ==
  LET m == OrOne(parseInt(item.motivation))
      r == OrOne(parseInt(item.ressources))
      p == m * r
  IN [p |-> p, bucket |-> chartPertinenceBucket(p)]

\* renderSROV(); updateAtelier2Chart();  as selectAnalysis runs them.
RenderSROV ==
  /\ LET item == NormaliseCouple(srov.item)
     IN srov' = [item |-> item, cell |-> setPertinence(item), edge |-> ChartEdge(item)]
  /\ UNCHANGED <<analyses, currentIndex, lsAnalyses, lsCurrentId, storageFull, live,
                 listLen, rows, exported, last, ppc, ateliers>>

\* onchange of a score select of the rendered row: the field is set, the cell
\* updated, then saveAnalyses() and, unless it threw, updateAtelier2Chart().
SetScore(item) ==
  /\ srov.cell # NoCell
  /\ srov' = [item |-> item, cell |-> setPertinence(item),
              edge |-> IF storageFull THEN srov.edge ELSE ChartEdge(item)]
  /\ last' = IF storageFull THEN "throw" ELSE "ok"
  /\ UNCHANGED <<analyses, currentIndex, lsAnalyses, lsCurrentId, storageFull, live,
                 listLen, rows, exported, ppc, ateliers>>

SetMotivation(v) == SetScore([srov.item EXCEPT !.motivation = IntV(v)])

SetRessources(v) == SetScore([srov.item EXCEPT !.ressources = IntV(v)])

\* The normalisation of a stakeholder in renderPPCarto.
NormaliseStakeholder(item) ==
  [dependance |-> IntV(OrOne(parseInt(item.dependance))),
   penetration |-> IntV(OrOne(parseInt(item.penetration))),
   maturite |-> IntV(OrOne(parseInt(item.maturite))),
   confiance |-> IntV(OrOne(parseInt(item.confiance)))]

Abs(x) == IF x < 0 THEN -x ELSE x

\* (e / n).toFixed(2) for integers e and n # 0, in hundredths: the quotient
\* rounded to the nearest hundredth, a tie going away from zero (the ties are
\* multiples of 1/8, which a double holds exactly).
toFixed2(e, n) ==
  LET q == (200 * Abs(e) + Abs(n)) \div (2 * Abs(n))
  IN IF (e < 0) = (n < 0) THEN q ELSE -q

\* A variant of updateDerivedCells that adds dependance and penetration.
updateDerivedCellsSum(entry) ==
  LET expo == OrOne(entry.dependance) + OrOne(entry.penetration)
      niveau == OrOne(entry.maturite) * OrOne(entry.confiance)
  IN [expo |-> expo, niveau |-> niveau,
      indice |-> IF niveau # 0 THEN toFixed2(expo, niveau) ELSE 0]

\* updateDerivedCells: the texts of the exposition, niveau SSI and indice cells.
updateDerivedCells(entry) ==
  LET expo == OrOne(entry.dependance) * OrOne(entry.penetration)
      niveau == OrOne(entry.maturite) * OrOne(entry.confiance)
  IN [expo |-> expo, niveau |-> niveau,
      indice |-> IF niveau # 0 THEN toFixed2(expo, niveau) ELSE 0]

\* renderPPCarto: the row of a stakeholder.
RenderPPCarto ==
  /\ LET item == NormaliseStakeholder(ppc.item)
     IN ppc' = [item |-> item, cells |-> updateDerivedCells(item)]
  /\ UNCHANGED <<analyses, currentIndex, lsAnalyses, lsCurrentId, storageFull, live,
                 listLen, rows, exported, last, srov, ateliers>>

\* onchange of a select of the rendered row: the field is set and the derived
\* cells updated, then saveAnalyses().
SetLevel(item) ==
  /\ ppc.cells # NoCells
  /\ ppc' = [item |-> item, cells |-> updateDerivedCells(item)]
  /\ last' = IF storageFull THEN "throw" ELSE "ok"
  /\ UNCHANGED <<analyses, currentIndex, lsAnalyses, lsCurrentId, storageFull, live,
                 listLen, rows, exported, srov, ateliers>>

SetDependance(v) == SetLevel([ppc.item EXCEPT !.dependance = IntV(v)])

SetPenetration(v) == SetLevel([ppc.item EXCEPT !.penetration = IntV(v)])

SetMaturite(v) == SetLevel([ppc.item EXCEPT !.maturite = IntV(v)])

SetConfiance(v) == SetLevel([ppc.item EXCEPT !.confiance = IntV(v)])

----------------------------------------------------------------------------
(* Atelier 1: the graph of missions and supports (updateAtelier1Graph) *)

MaxSupports == 2

\* The names a support can carry; the last one is blank.
SupportNames == {"", "S1", "S2", " "}

\* String.prototype.trim on the names above.
trim(name) == CASE name = " " -> "" [] name = " T1001" -> "T1001" [] OTHER -> name

\* A Map, kept as the sequence of its entries in insertion order.
MapHas(map, key) == \E i \in 1..Len(map) : map[i].key = key

MapGet(map, key) == map[CHOOSE i \in 1..Len(map) : map[i].key = key].val

MapSet(map, key, val) ==
  IF MapHas(map, key)
    THEN [i \in 1..Len(map) |-> IF map[i].key = key THEN [key |-> key, val |-> val] ELSE map[i]]
    ELSE Append(map, [key |-> key, val |-> val])

\* v || 0 for a number v.
OrZero(v) == IF v.t = "nan" THEN 0 ELSE v.n

\* events.forEach(ev => ...) on the map built so far.
RECURSIVE impactFold(_, _)
impactFold(events, map) ==
  IF events = <<>> THEN map
  ELSE LET ev == Head(events)
           mid == ev.missionId
           imp == OrZero(parseInt(ev.impact))
       IN impactFold(Tail(events),
                     IF ~MapHas(map, mid) \/ imp > MapGet(map, mid)
                       THEN MapSet(map, mid, imp)
                       ELSE map)

impactByMission(events) == impactFold(events, <<>>)

\* (m.supports || []).forEach(s => ...) for a mission of impact mImp.
RECURSIVE supportsFold(_, _, _)
supportsFold(supports, mImp, stats) ==
  IF supports = <<>> THEN stats
  ELSE LET name == trim(Head(supports))
           stat == IF MapHas(stats, name) THEN MapGet(stats, name)
                   ELSE [degree |-> 0, maxImpact |-> 0]
           counted == [degree |-> stat.degree + 1,
                       maxImpact |-> IF mImp > stat.maxImpact THEN mImp ELSE stat.maxImpact]
       IN supportsFold(Tail(supports), mImp,
                       IF name = "" THEN stats ELSE MapSet(stats, name, counted))

\* missions.forEach(m => ...) on the statistics built so far.
RECURSIVE missionsFold(_, _, _)
missionsFold(missions, impacts, stats) ==
  IF missions = <<>> THEN stats
  ELSE LET m == Head(missions)
           mImp == IF MapHas(impacts, m.id) THEN MapGet(impacts, m.id) ELSE 0
       IN missionsFold(Tail(missions), impacts, supportsFold(m.supports, mImp, stats))

supportStats(missions, events) == missionsFold(missions, impactByMission(events), <<>>)

\* A variant of the graph that writes the trimmed names back to the missions.
updateAtelier1GraphTrimming(g) ==
  [g EXCEPT !.stats = supportStats(g.missions, g.events), !.drawn = TRUE,
            !.missions = [i \in 1..Len(g.missions) |->
                            [g.missions[i] EXCEPT !.supports =
                               [j \in 1..Len(@) |-> trim(@[j])]]]]

\* The graph is drawn again from the missions and events of g.
updateAtelier1Graph(g) == [g EXCEPT !.stats = supportStats(g.missions, g.events), !.drawn = TRUE]

\* The list, the storage and the tables of Atelier 1 to 3.
store == <<analyses, currentIndex, lsAnalyses, lsCurrentId, storageFull, live,
           listLen, rows, exported, last, srov, ppc>>

\* The handlers of the graph leave everything but the graph alone.
OnlyGraph == UNCHANGED <<store, gapAct, gapData, mitre, carto, later>>

\* The tab of Atelier 1 is shown.
UpdateAtelier1Graph ==
  /\ graph' = updateAtelier1Graph(graph)
  /\ OnlyGraph

\* A click on '+ Support' in the row of mission i.
AddSupport(i) ==
  /\ i \in 1..Len(graph.missions)
  /\ Len(graph.missions[i].supports) < MaxSupports
  /\ graph' = updateAtelier1Graph(
                [graph EXCEPT !.missions[i].supports = Append(@, "")])
  /\ OnlyGraph

\* The name of support j of mission i is typed.
SetSupportName(i, j, name) ==
  /\ i \in 1..Len(graph.missions)
  /\ j \in 1..Len(graph.missions[i].supports)
  /\ graph' = updateAtelier1Graph([graph EXCEPT !.missions[i].supports[j] = name])
  /\ OnlyGraph

\* A click on the remove button of support j of mission i.
RemoveSupport(i, j) ==
  /\ i \in 1..Len(graph.missions)
  /\ j \in 1..Len(graph.missions[i].supports)
  /\ graph' = updateAtelier1Graph(
                [graph EXCEPT !.missions[i].supports = SeqRemoveAt(@, j)])
  /\ OnlyGraph

----------------------------------------------------------------------------
(* Atelier 5: the import of GAP requirements into the action rows *)

\* A string is the sequence of its characters.
Applique == <<"a", "p", "p", "l", "i", "q", "u", "e">>

\* The values of the application select of a requirement, and other spellings
\* a document can carry.
Applications ==
  { <<>>,
    <<"A", "p", "p", "l", "i", "q", "u", "é">>,
    <<"A", "P", "P", "L", "I", "Q", "U", "É", "E">>,
    <<" ", "A", "p", "p", "l", "i", "q", "u", "é">>,
    <<"P", "a", "r", "t", "i", "e", "l", "l", "e", "m", "e", "n", "t", " ",
      "a", "p", "p", "l", "i", "q", "u", "é">>,
    <<"N", "o", "n", " ", "a", "p", "p", "l", "i", "q", "u", "é">>,
    <<"N", "o", "n", " ", "a", "p", "p", "l", "i", "c", "a", "b", "l", "e">> }

\* String.prototype.toLowerCase, character by character.
lowerChar(c) ==
  CASE c = "A" -> "a" [] c = "P" -> "p" [] c = "L" -> "l" [] c = "I" -> "i"
    [] c = "Q" -> "q" [] c = "U" -> "u" [] c = "E" -> "e" [] c = "É" -> "é"
    [] c = "N" -> "n" [] OTHER -> c

toLowerCase(str) == [i \in 1..Len(str) |-> lowerChar(str[i])]

\* normalize('NFD').replace(/\p{Diacritic}/gu, ''): the accent of a letter goes.
stripDiacritics(str) == [i \in 1..Len(str) |-> IF str[i] = "é" THEN "e" ELSE str[i]]

\* replace(/\s+/g, '')
stripSpaces(str) == SelectSeq(str, LAMBDA c : c # " ")

startsWith(str, prefix) ==
  Len(str) >= Len(prefix) /\ SubSeq(str, 1, Len(prefix)) = prefix

\* A variant of the filter that compares the application as it is written.
fullyAppliedAsWritten(application) == startsWith(stripSpaces(application), Applique)

\* The filter of openImportModal: the requirement is fully applied.
fullyApplied(application) ==
  startsWith(stripSpaces(stripDiacritics(toLowerCase(application))), Applique)

GapIds(gap) == {gap[i].id : i \in 1..Len(gap)} \ {NoId}

\* (analysis.data.gap || []).forEach(req => ...) from requirement k on: the
\* requirements offered get an id when they have none.
RECURSIVE offerFold(_, _, _)
offerFold(gap, k, items) ==
  IF k > Len(gap) THEN [gap |-> gap, items |-> items]
  ELSE IF fullyApplied(gap[k].application) THEN offerFold(gap, k + 1, items)
  ELSE LET id == IF gap[k].id # NoId THEN gap[k].id ELSE uid(GapIds(gap), 1)
       IN offerFold([gap EXCEPT ![k].id = id], k + 1, Append(items, id))

OnlyGapActions == UNCHANGED <<store, graph, gapData, mitre, carto, later>>

ModalOpen == gapAct.type # "null"

\* A click on the import button of the GAP action table.
OpenImportModal ==
  /\ ~ModalOpen
  /\ LET r == offerFold(gapAct.gap, 1, <<>>)
     IN gapAct' = [gapAct EXCEPT !.gap = r.gap, !.type = "gap", !.items = r.items,
                                 !.selections = <<>>]
  /\ OnlyGapActions

\* A click on item k of the list of the modal selects it, or unselects it.
ClickImportItem(k) ==
  /\ ModalOpen
  /\ k \in 1..Len(gapAct.items)
  /\ LET id == gapAct.items[k]
     IN gapAct' = [gapAct EXCEPT !.selections =
                     IF id \in Range(@) THEN SelectSeq(@, LAMBDA x : x # id)
                     ELSE Append(@, id)]
  /\ OnlyGapActions

\* importSelections.forEach(id => ...) on the rows built so far.
RECURSIVE selectionFold(_, _)
selectionFold(selections, actionsGap) ==
  IF selections = <<>> THEN actionsGap
  ELSE selectionFold(Tail(selections),
                     IF \E i \in 1..Len(actionsGap) : actionsGap[i].sourceId = Head(selections)
                       THEN actionsGap
                       ELSE Append(actionsGap, [sourceId |-> Head(selections), actions |-> <<>>]))

\* closeImportModal
closeImportModal(g) == [g EXCEPT !.type = "null", !.items = <<>>, !.selections = <<>>]

\* A click on the confirm button of the modal opened on the requirements: the
\* rows are added, then saved; a save that throws leaves the modal as it is.
ApplyImportSelection ==
  /\ ModalOpen
  /\ gapAct.type = "gap"
  /\ LET applied == [gapAct EXCEPT !.actionsGap = selectionFold(gapAct.selections, @)]
     IN gapAct' = IF storageFull THEN applied ELSE closeImportModal(applied)
  /\ OnlyGapActions

\* A click on the cancel button of the modal.
CloseImportModal ==
  /\ ModalOpen
  /\ gapAct' = closeImportModal(gapAct)
  /\ OnlyGapActions

\* The application of requirement k is chosen in the GAP table, which the
\* modal covers while it is open.
SetApplication(k, application) ==
  /\ ~ModalOpen
  /\ k \in 1..Len(gapAct.gap)
  /\ gapAct' = [gapAct EXCEPT !.gap[k].application = application]
  /\ OnlyGapActions

----------------------------------------------------------------------------
(* GAP analysis: the requirements and their import from a JSON file *)

MaxGap == 3

\* obj.key: undefined when obj has no such property (a number has none).
Get(obj, key) == IF obj.t = "obj" /\ key \in DOMAIN obj THEN obj[key] ELSE Undef

\* a || b for strings: undefined and '' are falsy.
Or(a, b) == IF a \in {Undef, ""} THEN b ELSE a

\* A variant of the requirement built from a record that keeps the id of the
\* record when it has one.
importedKeepingId(obj, id) ==
  [id |-> IF obj.t = "obj" /\ "id" \in DOMAIN obj THEN obj.id ELSE id,
   domaine |-> Or(Or(Get(obj, "domaine"), Get(obj, "domain")), ""),
   titre |-> Or(Or(Get(obj, "titre"), Get(obj, "title")), ""),
   description |-> Or(Or(Get(obj, "description"), Get(obj, "desc")), ""),
   application |-> Or(Or(Get(obj, "application"), Get(obj, "status")), ""),
   justification |-> Or(Or(Get(obj, "justification"), Get(obj, "justif")), "")]

\* const req = { id: uid(), domaine: obj.domaine || obj.domain || '', ... }
imported(obj, id) ==
  [id |-> id,
   domaine |-> Or(Or(Get(obj, "domaine"), Get(obj, "domain")), ""),
   titre |-> Or(Or(Get(obj, "titre"), Get(obj, "title")), ""),
   description |-> Or(Or(Get(obj, "description"), Get(obj, "desc")), ""),
   application |-> Or(Or(Get(obj, "application"), Get(obj, "status")), ""),
   justification |-> Or(Or(Get(obj, "justification"), Get(obj, "justif")), "")]

ReqIds(gap) == {gap[i].id : i \in 1..Len(gap)}

DocRecordIds(items) ==
  {items[i].id : i \in {j \in 1..Len(items) : items[j].t = "obj" /\ "id" \in DOMAIN items[j]}}

\* json.forEach(obj => ...) from record k on: reading a property of null
\* throws, and what was pushed before stays pushed.
RECURSIVE importFold(_, _, _, _)
importFold(items, k, gap, used) ==
  IF k > Len(items) THEN [gap |-> gap, threw |-> FALSE]
  ELSE IF items[k].t = "null" THEN [gap |-> gap, threw |-> TRUE]
  ELSE LET id == uid(used, 1)
       IN importFold(items, k + 1, Append(gap, imported(items[k], id)), used \cup {id})

OnlyGapData == UNCHANGED <<store, graph, gapAct, mitre, carto, later>>

\* Every id in use: uid() returns none of them.
UsedGapIds(items) ==
  ReqIds(gapData.gap) \cup ReqIds(gapData.saved) \cup DocRecordIds(items)

\* The file chosen for the import of requirements has been read.
ImportGapFile(doc) ==
  /\ OnlyGapData
  /\ IF ~Parses(doc)
       THEN gapData' = [gapData EXCEPT !.alerted = TRUE]
     ELSE IF Parse(doc).t # "arr"
       THEN gapData' = [gapData EXCEPT !.alerted = TRUE]
     ELSE IF ~gapData.selected
       THEN gapData' = [gapData EXCEPT !.alerted = TRUE]
     ELSE LET items == Parse(doc).items
              r == importFold(items, 1, gapData.gap, UsedGapIds(items))
          IN /\ Len(gapData.gap) + Len(items) <= MaxGap
             /\ NumFree(UsedGapIds(items), MaxUid) >= Len(items)
             /\ gapData' = IF r.threw
                             THEN [gapData EXCEPT !.gap = r.gap, !.alerted = TRUE]
                             ELSE [gapData EXCEPT !.gap = r.gap, !.saved = r.gap,
                                                  !.alerted = FALSE]

\* A click on the button that adds a requirement.
AddRequirement ==
  /\ gapData.selected
  /\ Len(gapData.gap) < MaxGap
  /\ NumFree(UsedGapIds(<<>>), MaxUid) >= 1
  /\ LET req == [id |-> uid(UsedGapIds(<<>>), 1), domaine |-> "", titre |-> "",
                 description |-> "", application |-> "Appliqué", justification |-> ""]
         gap == Append(gapData.gap, req)
     IN gapData' = [gapData EXCEPT !.gap = gap, !.saved = gap, !.alerted = FALSE]
  /\ OnlyGapData

\* A click on the delete button of requirement k.
DeleteRequirement(k) ==
  /\ gapData.selected
  /\ k \in 1..Len(gapData.gap)
  /\ LET gap == SeqRemoveAt(gapData.gap, k)
     IN gapData' = [gapData EXCEPT !.gap = gap, !.saved = gap, !.alerted = FALSE]
  /\ OnlyGapData

----------------------------------------------------------------------------
(* The technique catalogue (parseMitreCsv) *)

MaxRows == 3

\* A line is the sequence of the cells that split(',') gives.
\* /technique id/i.test(h) and the like: the header cells and the column names
\* each of them contains once lower-cased.
NamesIn(h) ==
  CASE h = "Technique ID" -> {"technique id"}
    [] h = "technique id" -> {"technique id"}
    [] h = "Technique Name" -> {"technique name"}
    [] h = "Technique Description" -> {"technique description"}
    [] h = "Mitigation ID" -> {"mitigation id"}
    [] h = "Mitigation Name" -> {"mitigation name"}
    [] h = "Mitigation Description" -> {"mitigation description"}
    [] OTHER -> {}

\* header.findIndex(h => /name/i.test(h)), 0 when no cell matches (-1 in the code).
findIndex(header, name) ==
  IF \E i \in 1..Len(header) : name \in NamesIn(header[i])
    THEN CHOOSE i \in 1..Len(header) :
           /\ name \in NamesIn(header[i])
           /\ \A j \in 1..(i - 1) : name \notin NamesIn(header[j])
    ELSE 0

\* cols[index] ? cols[index].trim() : ''
Cell(cols, index) == IF index \in 1..Len(cols) THEN trim(cols[index]) ELSE ""

\* !row.trim(): the line holds nothing but blanks.
IsBlank(cols) == Len(cols) = 1 /\ trim(cols[1]) = ""

\* The six cells the parser reads in a line.
Read(header, cols) ==
  [tid |-> Cell(cols, findIndex(header, "technique id")),
   tname |-> Cell(cols, findIndex(header, "technique name")),
   tdesc |-> Cell(cols, findIndex(header, "technique description")),
   mid |-> Cell(cols, findIndex(header, "mitigation id")),
   mname |-> Cell(cols, findIndex(header, "mitigation name")),
   mdesc |-> Cell(cols, findIndex(header, "mitigation description"))]

\* A variant of the parser that makes an entry of every line kept.
parseMitreCsvUngrouped(header, lines) ==
  LET kept == SelectSeq(lines, LAMBDA cols : ~IsBlank(cols) /\ Read(header, cols).tid # "")
  IN [i \in 1..Len(kept) |->
        LET c == Read(header, kept[i])
        IN [id |-> c.tid, title |-> c.tname, description |-> c.tdesc,
            mitigations |-> IF c.mid # ""
                              THEN <<[id |-> c.mid, mitigation |-> c.mname, description |-> c.mdesc]>>
                              ELSE <<>>]]

\* for (let i = 1; i < lines.length; i++) { ... } from line k on.
RECURSIVE rowFold(_, _, _, _)
rowFold(header, lines, k, map) ==
  IF k > Len(lines) THEN map
  ELSE LET c == Read(header, lines[k])
       IN IF IsBlank(lines[k]) \/ c.tid = "" THEN rowFold(header, lines, k + 1, map)
          ELSE LET known == IF MapHas(map, c.tid) THEN map
                            ELSE MapSet(map, c.tid,
                                        [id |-> c.tid, title |-> c.tname,
                                         description |-> c.tdesc, mitigations |-> <<>>])
                   entry == MapGet(known, c.tid)
                   pushed == [entry EXCEPT !.mitigations =
                                Append(@, [id |-> c.mid, mitigation |-> c.mname,
                                           description |-> c.mdesc])]
               IN rowFold(header, lines, k + 1,
                          IF c.mid # "" THEN MapSet(known, c.tid, pushed) ELSE known)

\* Array.from(map.values())
MapValues(map) == [i \in 1..Len(map) |-> map[i].val]

parseMitreCsv(header, lines) ==
  IF Len(lines) = 0 THEN <<>> ELSE MapValues(rowFold(header, lines, 1, <<>>))

\* The text of the catalogue has been fetched and is parsed.
ParseMitreCsv ==
  /\ mitre' = [mitre EXCEPT !.library = parseMitreCsv(mitre.header, mitre.rows),
                            !.parsed = TRUE]
  /\ UNCHANGED <<store, graph, gapAct, gapData, carto, later>>

----------------------------------------------------------------------------
(* Atelier 3: stakeholders, strategies and what they refer to *)

\* carto holds, of the current analysis: the names of the supports of its
\* mission (data.missions[0].supports), data.events, data.srov (couples),
\* data.ppc (stakeholders), data.strategies and data.actionsParties. A table
\* is rendered by selectAnalysis and by its own handlers only, so the options
\* it offers are those of the data as it was then.

\* The entries of a list without repetition, in order of first appearance.
RECURSIVE Distinct(_)
Distinct(list) ==
  IF list = <<>> THEN <<>>
  ELSE LET front == Distinct(SubSeq(list, 1, Len(list) - 1))
           x == list[Len(list)]
       IN IF x \in Range(front) THEN front ELSE Append(front, x)

IdsOf(items) == [i \in 1..Len(items) |-> items[i].id]

\* renderPPCarto: supportOptions and missionOptions are built again.
cartoRendered(c) ==
  [c EXCEPT !.supportOptions = Distinct(SelectSeq(c.supports, LAMBDA name : name # "")),
            !.missionOptions = <<1>>]

\* renderStrategies: ppOptions and eventOptions are built again.
strategiesRendered(c) ==
  [c EXCEPT !.ppOptions = IdsOf(c.stakeholders), !.eventOptions = IdsOf(c.events)]

\* A variant of the options a '+ Ajouter' button offers: all of them.
availableAll(options, list) == options

\* options.filter(opt => !list.includes(opt.value))
available(options, list) == SelectSeq(options, LAMBDA o : o \notin Range(list))

\* const pos = list.indexOf(id); if (pos >= 0) list.splice(pos, 1);
removeId(list, id) ==
  IF id \in Range(list)
    THEN SeqRemoveAt(list, CHOOSE i \in 1..Len(list) :
                             list[i] = id /\ \A j \in 1..(i - 1) : list[j] # id)
    ELSE list

\* A variant of the deletion of stakeholder k that also removes its id from
\* the intermediaries of the strategies.
deleteStakeholderCascading(c, k) ==
  [c EXCEPT !.stakeholders = SeqRemoveAt(@, k),
            !.strategies = [i \in 1..Len(@) |->
                              [@[i] EXCEPT !.intermediaireIds =
                                 SelectSeq(@, LAMBDA x : x # c.stakeholders[k].id)]]]

\* ppc.splice(idx, 1)
deleteStakeholder(c, k) == [c EXCEPT !.stakeholders = SeqRemoveAt(@, k)]

OnlyCarto == UNCHANGED <<store, graph, gapAct, gapData, mitre, later>>

\* A click on the delete button of row k of the cartography.
DeleteStakeholder(k) ==
  /\ k \in 1..Len(carto.stakeholders)
  /\ carto' = cartoRendered(deleteStakeholder(carto, k))
  /\ OnlyCarto

\* A click on the delete button of row k of the SROV table.
DeleteCouple(k) ==
  /\ k \in 1..Len(carto.couples)
  /\ carto' = [carto EXCEPT !.couples = SeqRemoveAt(@, k)]
  /\ OnlyCarto

\* A click on the remove button of support j in the missions table.
DeleteSupport(j) ==
  /\ j \in 1..Len(carto.supports)
  /\ carto' = [carto EXCEPT !.supports = SeqRemoveAt(@, j)]
  /\ OnlyCarto

\* A click on the delete button of row k of the events table.
DeleteEvent(k) ==
  /\ k \in 1..Len(carto.events)
  /\ carto' = [carto EXCEPT !.events = SeqRemoveAt(@, k)]
  /\ OnlyCarto

\* '+ Ajouter' in the supports cell of stakeholder k, the prompt answered by n.
AddSupportId(k, n) ==
  /\ k \in 1..Len(carto.stakeholders)
  /\ LET offered == available(carto.supportOptions, carto.stakeholders[k].supportIds)
     IN /\ n \in 1..Len(offered)
        /\ carto' = cartoRendered([carto EXCEPT !.stakeholders[k].supportIds =
                                                  Append(@, offered[n])])
  /\ OnlyCarto

\* The remove button of the tag of support sid of stakeholder k.
RemoveSupportId(k, sid) ==
  /\ k \in 1..Len(carto.stakeholders)
  /\ sid \in Range(carto.stakeholders[k].supportIds)
  /\ carto' = cartoRendered([carto EXCEPT !.stakeholders[k].supportIds = removeId(@, sid)])
  /\ OnlyCarto

\* '+ Ajouter' in the values cell of stakeholder k, the prompt answered by n.
AddValueId(k, n) ==
  /\ k \in 1..Len(carto.stakeholders)
  /\ LET offered == available(carto.missionOptions, carto.stakeholders[k].valueIds)
     IN /\ n \in 1..Len(offered)
        /\ carto' = cartoRendered([carto EXCEPT !.stakeholders[k].valueIds =
                                                  Append(@, offered[n])])
  /\ OnlyCarto

\* The remove button of the tag of value vid of stakeholder k.
RemoveValueId(k, vid) ==
  /\ k \in 1..Len(carto.stakeholders)
  /\ vid \in Range(carto.stakeholders[k].valueIds)
  /\ carto' = cartoRendered([carto EXCEPT !.stakeholders[k].valueIds = removeId(@, vid)])
  /\ OnlyCarto

\* '+ Ajouter' in the intermediaries cell of strategy k, the prompt answered by n.
AddIntermediaire(k, n) ==
  /\ k \in 1..Len(carto.strategies)
  /\ LET offered == available(carto.ppOptions, carto.strategies[k].intermediaireIds)
     IN /\ n \in 1..Len(offered)
        /\ carto' = strategiesRendered([carto EXCEPT !.strategies[k].intermediaireIds =
                                                       Append(@, offered[n])])
  /\ OnlyCarto

\* The remove button of the tag of intermediary ppId of strategy k.
RemoveIntermediaire(k, ppId) ==
  /\ k \in 1..Len(carto.strategies)
  /\ ppId \in Range(carto.strategies[k].intermediaireIds)
  /\ carto' = strategiesRendered([carto EXCEPT !.strategies[k].intermediaireIds =
                                                 removeId(@, ppId)])
  /\ OnlyCarto

\* '+ Ajouter' in the events cell of strategy k, the prompt answered by n.
AddEventId(k, n) ==
  /\ k \in 1..Len(carto.strategies)
  /\ LET offered == available(carto.eventOptions, carto.strategies[k].eventIds)
     IN /\ n \in 1..Len(offered)
        /\ carto' = strategiesRendered([carto EXCEPT !.strategies[k].eventIds =
                                                       Append(@, offered[n])])
  /\ OnlyCarto

\* The remove button of the tag of event evId of strategy k.
RemoveEventId(k, evId) ==
  /\ k \in 1..Len(carto.strategies)
  /\ evId \in Range(carto.strategies[k].eventIds)
  /\ carto' = strategiesRendered([carto EXCEPT !.strategies[k].eventIds = removeId(@, evId)])
  /\ OnlyCarto

\* A click on the analysis in the list: selectAnalysis renders every table.
SelectAgain ==
  /\ carto' = strategiesRendered(cartoRendered(carto))
  /\ OnlyCarto

\* What the views show for a reference: the label of what it resolves to, the
\* raw key, or a fixed text that names nothing.
Label(id) == [t |-> "label", id |-> id]
RawKey(id) == [t |-> "key", id |-> id]
FixedText == [t |-> "fixed", id |-> 0]

\* opt ? opt.label : ppId, in the intermediaries cell of a strategy.
IntermediaireTag(c, ppId) ==
  IF ppId \in Range(IdsOf(c.stakeholders)) THEN Label(ppId) ELSE RawKey(ppId)

\* opt ? opt.label : evId, in the events cell of a strategy.
EventTag(c, evId) ==
  IF evId \in Range(IdsOf(c.events)) THEN Label(evId) ELSE RawKey(evId)

\* opt ? opt.label : vid, in the values cell of a stakeholder.
ValueTag(c, vid) == IF vid \in {1} THEN Label(vid) ELSE RawKey(vid)

\* opt ? opt.label : sid, in the supports cell of a stakeholder: the label of
\* a support is its name, which is the key.
SupportTag(c, sid) == [t |-> "key", name |-> sid]

\* The severity cell of a strategy: the greatest impact of the events found.
Gravite(c, st) ==
  LET found == {k \in 1..Len(c.events) : c.events[k].id \in Range(st.eventIds)}
  IN IF found = {} THEN 0
     ELSE CHOOSE x \in {c.events[k].impact : k \in found} :
            \A k \in found : c.events[k].impact <= x

\* The select of a row of the party actions: the option of row.ppId is the
\* selected one when there is one, '--Sélectionner--' otherwise.
PartyActionRow(c, row) ==
  IF row.ppId \in Range(IdsOf(c.stakeholders)) THEN Label(row.ppId) ELSE FixedText

\* 'Partie: ' + (pp ? (pp.nom || pp.name || 'Partie') : 'Partie') in the plan.
PlanSource(c, row) ==
  IF row.ppId \in Range(IdsOf(c.stakeholders)) THEN Label(row.ppId) ELSE FixedText

----------------------------------------------------------------------------
(* Atelier 1: the support objects of the missions (renderMissionsTable) *)

MaxObjects == 2

\* What is typed in the description or the responsable of a support.
SupportTexts == {"", "x"}

\* The names typed in the name of a support.
TypedNames == {"", "S1"}

\* Supports are JavaScript objects: supp.heap[r] is the object of reference r,
\* supp.missions[i] the references mission i holds in its supports array, and
\* supp.shown[i] those the inputs of the row of mission i captured when the
\* table was last rendered (input j captured index j - 1 as well). The field
\* `from` is not in the program: it names the object a copy was made of, for
\* the properties below.
BlankSupport == [name |-> "", description |-> "", responsable |-> "", from |-> 0]

\* renderMissionsTable: the rows are built again from the missions.
renderSupportRows(sp) == [sp EXCEPT !.shown = sp.missions]

\* The references of all the missions, mission after mission.
RECURSIVE Flatten(_)
Flatten(lists) == IF lists = <<>> THEN <<>> ELSE Head(lists) \o Flatten(Tail(lists))

\* analysis.data.missions.forEach(m2 => (m2.supports || []).forEach(s => ...)):
\* one new object per name, built from the first support that carries it.
RECURSIVE collectSupports(_, _, _)
collectSupports(heap, refs, all) ==
  IF refs = <<>> THEN all
  ELSE LET s == heap[Head(refs)]
           name == trim(s.name)
       IN collectSupports(heap, Tail(refs),
            IF name = "" \/ \E i \in 1..Len(all) : all[i].name = name
              THEN all
              ELSE Append(all, [name |-> name, description |-> s.description,
                                responsable |-> s.responsable, from |-> Head(refs)]))

\* The supports '+ Support existant' offers for mission i.
availableSupports(sp, i) ==
  LET currentNames == {trim(sp.heap[r].name) : r \in Range(sp.missions[i])}
  IN SelectSeq(collectSupports(sp.heap, Flatten(sp.missions), <<>>),
               LAMBDA s : s.name \notin currentNames)

\* A variant that pushes the object the offer was built from.
existingSupportShared(heap, picked) == [heap |-> heap, ref |-> picked.from]

\* Object.assign({}, available[index]): a new object with the fields of the
\* offer, and the heap that holds it.
existingSupport(heap, picked) == [heap |-> Append(heap, picked), ref |-> Len(heap) + 1]

\* An object that no mission holds and no input captured can no longer be
\* read or written: its fields are forgotten.
collected(sp) ==
  LET reachable == Range(Flatten(sp.missions)) \cup Range(Flatten(sp.shown))
  IN [sp EXCEPT !.heap = [r \in 1..Len(sp.heap) |->
                            IF r \in reachable THEN sp.heap[r] ELSE BlankSupport]]

\* saveAnalyses(); renderMissionsTable(); updateAtelier1Graph() after a change
\* of the supports: the rows stay as they are when the write throws.
savedThenRows(sp) == collected(IF storageFull THEN sp ELSE renderSupportRows(sp))

early == <<graph, gapAct, gapData, mitre, carto>>

OnlySupp == UNCHANGED <<store, early, riskModal, risques, charts, buttons>>

\* A click on '+ Support' in the row of mission i.
AddSupportObject(i) ==
  /\ i \in 1..Len(supp.missions)
  /\ Len(supp.heap) < MaxObjects
  /\ Len(supp.missions[i]) < MaxSupports
  /\ supp' = savedThenRows(
               [supp EXCEPT !.heap = Append(@, BlankSupport),
                            !.missions[i] = Append(@, Len(supp.heap) + 1)])
  /\ OnlySupp

\* A click on '+ Support existant' in the row of mission i, the prompt being
\* answered by input: -1 stands for a cancelled prompt, 0 for a text that is
\* no number (or the number 0), n for the text of the number n. Nothing is
\* pushed when no support is available (an alert says so), when the prompt is
\* cancelled or when the answer is no index of the list.
AddExistingSupport(i, input) ==
  /\ i \in 1..Len(supp.missions)
  /\ Len(supp.heap) < MaxObjects
  /\ Len(supp.missions[i]) < MaxSupports
  /\ LET offered == availableSupports(supp, i)
         index == input - 1
     IN IF offered = <<>> \/ input = -1 \/ ~(index >= 0 /\ index < Len(offered))
          THEN UNCHANGED supp
          ELSE LET r == existingSupport(supp.heap, offered[index + 1])
               IN supp' = savedThenRows(
                            [supp EXCEPT !.heap = r.heap,
                                         !.missions[i] = Append(@, r.ref)])
  /\ OnlySupp

\* Something is typed in an input of support j of the row of mission i:
\* support[field] = e.target.value, on the object the input captured.
EditSupport(i, j, field, value) ==
  /\ i \in 1..Len(supp.shown)
  /\ j \in 1..Len(supp.shown[i])
  /\ supp' = [supp EXCEPT !.heap[supp.shown[i][j]][field] = value]
  /\ OnlySupp

\* A click on the remove button of support j of the row of mission i:
\* mission.supports.splice(sIdx, 1) with the index the button captured.
RemoveSupportObject(i, j) ==
  /\ i \in 1..Len(supp.shown)
  /\ j \in 1..Len(supp.shown[i])
  /\ supp' = savedThenRows([supp EXCEPT !.missions[i] = Splice(@, j - 1)])
  /\ OnlySupp

----------------------------------------------------------------------------

(* Atelier 4: the risk modal and the technique catalogue it lists (openRiskModal) *)

MaxRequests == 2

\* The built-in list of risks.
RISK_LIBRARY == <<"Phishing", "Ransomware">>

\* mitreLibrary after the page is loaded: the stored item when it parses to an array.
loadMitreLibrary(stored) ==
  IF stored # NoItem /\ Parses(stored) /\ Parse(stored).t = "arr"
    THEN Parse(stored).items
    ELSE <<>>

\* renderRiskList: the catalogue in memory when it is not empty, the built-in
\* list otherwise; an item is named by its id and title.
renderRiskList(library) ==
  IF Len(library) > 0
    THEN [i \in 1..Len(library) |-> [id |-> library[i].id, title |-> library[i].title]]
    ELSE [i \in 1..Len(RISK_LIBRARY) |-> [id |-> "", title |-> RISK_LIBRARY[i]]]

\* The callback of request k, which arrived at it by the way `how`:
\* modal.style.display = 'flex'; renderRiskList(searchInput.value).
callback(rm, k, how) ==
  [rm EXCEPT !.shown = TRUE,
             !.reqs[k] = [pc |-> "done", how |-> how, shows |-> @.shows + 1,
                          listed |-> renderRiskList(rm.library)]]

\* A variant in which the callback only runs when the text was fetched.
settledOnSuccess(rm, k, how) ==
  IF how = "failed" THEN [rm EXCEPT !.reqs[k].pc = "done", !.reqs[k].how = how]
  ELSE callback(rm, k, how)

\* .finally(() => { callback(); }): the callback runs however the fetch ended.
settled(rm, k, how) == callback(rm, k, how)

\* ensureMitreLoaded up to its return, for the new request k: the callback is
\* run at once when a catalogue is in memory or is restored from the storage;
\* otherwise the text of the catalogue is fetched.
ensureMitreLoaded(rm, k) ==
  LET stored == rm.lsLibrary
  IN IF Len(rm.library) > 0 THEN callback(rm, k, "memory")
     ELSE IF stored # NoItem /\ Parses(stored) /\ Parse(stored).t = "arr"
               /\ Len(Parse(stored).items) > 0
       THEN callback([rm EXCEPT !.library = Parse(stored).items], k, "storage")
     ELSE [rm EXCEPT !.reqs[k].pc = "fetching"]

OnlyRiskModal == UNCHANGED <<store, early, supp, risques, charts, buttons>>

\* A click on '+ Ajouter' in the risks cell of a scenario: openRiskModal.
OpenRiskModal ==
  /\ Len(riskModal.reqs) < MaxRequests
  /\ riskModal' = ensureMitreLoaded(
                    [riskModal EXCEPT !.reqs = Append(@, [pc |-> "sync", how |-> "none",
                                                          shows |-> 0, listed |-> <<>>])],
                    Len(riskModal.reqs) + 1)
  /\ OnlyRiskModal

\* The fetch of request k settles: with a response that is ok, whose text is
\* then read; with another response or with a network error, which ends in the
\* catch and the finally of the chain.
FetchSettles(k, outcome) ==
  /\ k \in 1..Len(riskModal.reqs)
  /\ riskModal.reqs[k].pc = "fetching"
  /\ riskModal' = IF outcome = "ok" THEN [riskModal EXCEPT !.reqs[k].pc = "reading"]
                  ELSE settled(riskModal, k, "failed")
  /\ OnlyRiskModal

\* The text of the response of request k arrives, or fails to: a catalogue
\* that is not empty is kept in memory and written to the storage (a write that
\* throws ends in the catch), and the finally runs the callback.
TextArrives(k, body) ==
  /\ k \in 1..Len(riskModal.reqs)
  /\ riskModal.reqs[k].pc = "reading"
  /\ LET parsed == parseMitreCsv(body.header, body.lines)
     IN riskModal' =
          IF ~body.ok THEN settled(riskModal, k, "failed")
          ELSE IF Len(parsed) > 0
            THEN settled([riskModal EXCEPT
                            !.library = parsed,
                            !.lsLibrary = IF storageFull THEN @ ELSE Stringify(Arr(parsed))],
                         k, "fetched")
          ELSE settled(riskModal, k, "fetched")
  /\ OnlyRiskModal

\* The apply button of the catalogue import, with the selected techniques:
\* mitreLibrary is assigned, then written to the storage.
ApplyMitreImport(selection) ==
  /\ riskModal' = [riskModal EXCEPT
                     !.library = selection,
                     !.lsLibrary = IF storageFull THEN @ ELSE Stringify(Arr(selection))]
  /\ OnlyRiskModal

\* The close button of the risk modal.
CloseRiskModal ==
  /\ riskModal.shown
  /\ riskModal' = [riskModal EXCEPT !.shown = FALSE]
  /\ OnlyRiskModal

----------------------------------------------------------------------------

(* Atelier 5: the import of the risks of the scenarios into the action rows *)

MaxActions == 1

MaxRisks == 2

\* a || b for levels: 0 stands for a level that is undefined (or 0, or '').
OrLevel(a, b) == IF a = 0 THEN b ELSE a

\* Math.max
MathMax(a, b) == IF a >= b THEN a ELSE b

\* The entries of scenario.risks that carry a name, each with the levels the
\* roll-up reads of it: riskObj.vraisemblance || v || 1, riskObj.gravite || g || 1.
entriesOf(scenario) ==
  LET named == SelectSeq(scenario.risks, LAMBDA riskObj : riskObj.name # "")
  IN [i \in 1..Len(named) |->
        [name |-> named[i].name,
         vraisemblance |-> OrLevel(named[i].vraisemblance, OrLevel(scenario.vraisemblance, 1)),
         gravite |-> OrLevel(named[i].gravite, OrLevel(scenario.gravite, 1))]]

\* riskMap.get(name): the position of the name in the map, 0 when it has none.
riskMapGet(riskMap, name) ==
  IF \E i \in 1..Len(riskMap) : riskMap[i].name = name
    THEN CHOOSE i \in 1..Len(riskMap) : riskMap[i].name = name
    ELSE 0

\* A variant of the roll-up that keeps the levels of the first entry of a name.
RECURSIVE riskMapFirst(_, _)
riskMapFirst(entries, riskMap) ==
  IF entries = <<>> THEN riskMap
  ELSE riskMapFirst(Tail(entries),
                    IF riskMapGet(riskMap, Head(entries).name) = 0
                      THEN Append(riskMap, Head(entries)) ELSE riskMap)

\* The forEach of the roll-up over the entries of all scenarios: the map, in
\* the order of insertion, holds for each name the greatest levels met.
RECURSIVE riskMapFold(_, _)
riskMapFold(entries, riskMap) ==
  IF entries = <<>> THEN riskMap
  ELSE LET e == Head(entries)
           at == riskMapGet(riskMap, e.name)
       IN riskMapFold(Tail(entries),
            IF at = 0 THEN Append(riskMap, e)
            ELSE [riskMap EXCEPT
                    ![at].vraisemblance = MathMax(@, e.vraisemblance),
                    ![at].gravite = MathMax(@, e.gravite)])

riskMapOf(so) == riskMapFold(Flatten([s \in 1..Len(so) |-> entriesOf(so[s])]), <<>>)

\* riskMap.get(name) || { name, vraisemblance: 1, gravite: 1 }
riskOf(riskMap, name) ==
  IF riskMapGet(riskMap, name) = 0 THEN [name |-> name, vraisemblance |-> 1, gravite |-> 1]
  ELSE riskMap[riskMapGet(riskMap, name)]

\* A variant of the import that adds a row for every selected name.
RECURSIVE importRisquesAgain(_, _, _)
importRisquesAgain(selections, actionsRisques, riskMap) ==
  IF selections = <<>> THEN actionsRisques
  ELSE LET risk == riskOf(riskMap, Head(selections))
       IN importRisquesAgain(Tail(selections),
            Append(actionsRisques,
                   [riskName |-> risk.name, residualV |-> risk.vraisemblance,
                    residualG |-> risk.gravite, actions |-> <<>>]),
            riskMap)

\* importSelections.forEach(name => ...) on the rows built so far: a row is
\* added for a name no row carries, seeded with the levels of the roll-up.
RECURSIVE importRisques(_, _, _)
importRisques(selections, actionsRisques, riskMap) ==
  IF selections = <<>> THEN actionsRisques
  ELSE LET risk == riskOf(riskMap, Head(selections))
       IN importRisques(Tail(selections),
            IF \E i \in 1..Len(actionsRisques) : actionsRisques[i].riskName = risk.name
              THEN actionsRisques
              ELSE Append(actionsRisques,
                          [riskName |-> risk.name, residualV |-> risk.vraisemblance,
                           residualG |-> risk.gravite, actions |-> <<>>]),
            riskMap)

OnlyRisques == UNCHANGED <<store, graph, gapData, mitre, carto, supp, riskModal, charts, buttons>>

\* A click on the import button of the risk action table: the modal lists the
\* names of the risks of the scenarios.
OpenRisquesImport ==
  /\ ~ModalOpen
  /\ LET riskMap == riskMapOf(risques.so)
     IN gapAct' = [gapAct EXCEPT !.type = "risques",
                                 !.items = [i \in 1..Len(riskMap) |-> riskMap[i].name],
                                 !.selections = <<>>]
  /\ UNCHANGED risques
  /\ OnlyRisques

\* A click on the confirm button of the modal opened on the risks: the rows are
\* added, then saved; a save that throws leaves the modal as it is.
ApplyRisquesSelection ==
  /\ ModalOpen
  /\ gapAct.type = "risques"
  /\ risques' = [risques EXCEPT !.actionsRisques =
                   importRisques(gapAct.selections, @, riskMapOf(risques.so))]
  /\ gapAct' = IF storageFull THEN gapAct ELSE closeImportModal(gapAct)
  /\ OnlyRisques

\* A level of scenario s is chosen in the table of the scenarios, which the
\* modal covers while it is open.
SetScenarioLevel(s, field, level) ==
  /\ ~ModalOpen
  /\ s \in 1..Len(risques.so)
  /\ risques' = [risques EXCEPT !.so[s][field] = level]
  /\ UNCHANGED gapAct
  /\ OnlyRisques

\* addRiskToScenario: the risk chosen in the risk modal is added to scenario
\* s with the levels the scenario has.
AddRiskToScenario(s, name) ==
  /\ ~ModalOpen
  /\ s \in 1..Len(risques.so)
  /\ Len(risques.so[s].risks) < MaxRisks
  /\ risques' = [risques EXCEPT !.so[s].risks =
                   Append(@, [name |-> name,
                              vraisemblance |-> risques.so[s].vraisemblance,
                              gravite |-> risques.so[s].gravite])]
  /\ UNCHANGED gapAct
  /\ OnlyRisques

\* A residual level of row i of the risk action table is chosen.
SetResidual(i, field, level) ==
  /\ ~ModalOpen
  /\ i \in 1..Len(risques.actionsRisques)
  /\ risques' = [risques EXCEPT !.actionsRisques[i][field] = level]
  /\ UNCHANGED gapAct
  /\ OnlyRisques

BlankAction == [name |-> "", description |-> "", responsable |-> "", start |-> "", end |-> ""]

\* A click on '+ Action' in row i of the risk action table.
AddRisqueAction(i) ==
  /\ ~ModalOpen
  /\ i \in 1..Len(risques.actionsRisques)
  /\ Len(risques.actionsRisques[i].actions) < MaxActions
  /\ risques' = [risques EXCEPT !.actionsRisques[i].actions = Append(@, BlankAction)]
  /\ UNCHANGED gapAct
  /\ OnlyRisques

\* A click on '+ Action' in row i of the GAP action table.
AddGapAction(i) ==
  /\ ~ModalOpen
  /\ i \in 1..Len(gapAct.actionsGap)
  /\ Len(gapAct.actionsGap[i].actions) < MaxActions
  /\ gapAct' = [gapAct EXCEPT !.actionsGap[i].actions = Append(@, BlankAction)]
  /\ OnlyGapActions

----------------------------------------------------------------------------

(* The charts and the plan of actions: what is drawn from the data *)

\* String.prototype.trim, character by character.
RECURSIVE trimStart(_)
trimStart(str) == IF str # <<>> /\ Head(str) = " " THEN trimStart(Tail(str)) ELSE str

RECURSIVE trimEnd(_)
trimEnd(str) ==
  IF str # <<>> /\ str[Len(str)] = " " THEN trimEnd(SubSeq(str, 1, Len(str) - 1)) ELSE str

trimChars(str) == trimEnd(trimStart(str))

Accented == <<"a", "p", "p", "l", "i", "q", "u", "é">>

Partiellement == <<"p", "a", "r", "t", "i", "e", "l", "l", "e", "m", "e", "n", "t", " ">>

Non == <<"n", "o", "n", " ">>

Applicable == <<"a", "p", "p", "l", "i", "c", "a", "b", "l", "e">>

\* The category updateGapChart counts a requirement in, "" when it counts it
\* in none.
gapCategory(application) ==
  LET val == trimChars(toLowerCase(application))
  IN CASE val \in {Accented, Applique} -> "applique"
       [] val \in {Partiellement \o Accented, Partiellement \o Applique} -> "partiel"
       [] val \in {Non \o Accented, Non \o Applique} -> "non"
       [] val = Non \o Applicable -> "nonApp"
       [] OTHER -> ""

\* updateGapChart: the counts of the donut.
updateGapChart(gap) ==
  [key \in {"applique", "partiel", "non", "nonApp"} |->
     Cardinality({k \in 1..Len(gap) : gapCategory(gap[k].application) = key})]

\* updateAtelier3Chart: the sums of the radar of the stakeholders when the tab
\* of the cartography is the active one; the analysis holds no party of the
\* other tab, whose canvas is cleared.
updateAtelier3Chart(item, cartoActive) ==
  IF cartoActive
    THEN LET dep == OrOne(parseInt(item.dependance))
             pen == OrOne(parseInt(item.penetration))
             mat == OrOne(parseInt(item.maturite))
             conf == OrOne(parseInt(item.confiance))
         IN [n |-> 1, sumExpo |-> dep * pen, sumNiveau |-> mat * conf]
    ELSE [n |-> 0, sumExpo |-> 0, sumNiveau |-> 0]

\* updateAtelier4Chart: the number of scenarios of each vraisemblance.
updateAtelier4Chart(so) ==
  [lvl \in 1..4 |-> Cardinality({s \in 1..Len(so) : so[s].vraisemblance = lvl})]

\* The lines of the plan for the rows of one table: one per action, with the
\* name of the action and the source of its row.
RECURSIVE planLines(_, _, _)
planLines(list, kind, key) ==
  IF list = <<>> THEN <<>>
  ELSE [i \in 1..Len(Head(list).actions) |->
          [name |-> Head(list).actions[i].name, kind |-> kind, of |-> Head(list)[key]]]
         \o planLines(Tail(list), kind, key)

\* renderPlanActions: the actions of the GAP rows, then of the risk rows (the
\* analysis holds no support row and no party row).
renderPlanActions(actionsGap, actionsRisques) ==
  planLines(actionsGap, "GAP", "sourceId") \o planLines(actionsRisques, "Risque", "riskName")

OnlyCharts == UNCHANGED <<store, early, supp, riskModal, risques, buttons>>

UpdateGapChart ==
  /\ charts' = [charts EXCEPT !.gap = updateGapChart(gapAct.gap),
                              !.drawn = @ \cup {"gap"}]
  /\ OnlyCharts

\* updateAtelier2Chart: the edge of the couple is drawn again.
UpdateAtelier2Chart ==
  /\ srov' = [srov EXCEPT !.edge = ChartEdge(srov.item)]
  /\ UNCHANGED <<analyses, currentIndex, lsAnalyses, lsCurrentId, storageFull, live,
                 listLen, rows, exported, last, ppc, ateliers>>

UpdateAtelier3Chart(cartoActive) ==
  /\ charts' = [charts EXCEPT !.atelier3 = updateAtelier3Chart(ppc.item, cartoActive),
                              !.drawn = @ \cup {"atelier3"}]
  /\ OnlyCharts

UpdateAtelier4Chart ==
  /\ charts' = [charts EXCEPT !.atelier4 = updateAtelier4Chart(risques.so),
                              !.drawn = @ \cup {"atelier4"}]
  /\ OnlyCharts

RenderPlanActions ==
  /\ charts' = [charts EXCEPT
                  !.plan = renderPlanActions(gapAct.actionsGap, risques.actionsRisques),
                  !.drawn = @ \cup {"plan"}]
  /\ OnlyCharts

----------------------------------------------------------------------------

(* Atelier 3: the buttons that add a stakeholder and a strategy *)

MaxStakeholders == 3

MaxStrategies == 2

\* The ids of the analysis.
CartoIds(c) ==
  Range(IdsOf(c.stakeholders)) \cup Range(IdsOf(c.strategies))
    \cup Range(IdsOf(c.events)) \cup Range(IdsOf(c.couples))

\* setupAddButtons: the listeners of the two buttons are added when the
\* buttons are in the page; the buttons that are looked up without a test sit
\* before them, and the function throws at the first that is not in the page.
setupAddButtons(b) ==
  IF b.inPage.others
    THEN [b EXCEPT !.listener = [ppc |-> b.inPage.ppc, strategy |-> b.inPage.strategy]]
    ELSE b

\* renderPPCarto and renderStrategies assign onclick to the button that is in
\* the page; the listeners added with addEventListener stay.
rendersBind(b) ==
  [b EXCEPT !.onclick = [ppc |-> b.inPage.ppc, strategy |-> b.inPage.strategy]]

\* The handler of 'Ajouter une partie prenante', the same in both bindings:
\* push, saveAnalyses(), renderPPCarto(), updateAtelier3Chart().
addStakeholder(c, full) ==
  LET pushed == [c EXCEPT !.stakeholders =
                   Append(@, [id |-> uid(CartoIds(c), 1), supportIds |-> <<>>,
                              valueIds |-> <<>>])]
  IN IF full THEN pushed ELSE cartoRendered(pushed)

\* The handler of 'Ajouter un scénario', the same in both bindings: push,
\* saveAnalyses(), renderStrategies().
addStrategy(c, full) ==
  LET pushed == [c EXCEPT !.strategies =
                   Append(@, [id |-> uid(CartoIds(c), 1), intermediaireIds |-> <<>>,
                              eventIds |-> <<>>])]
  IN IF full THEN pushed ELSE strategiesRendered(pushed)

\* A click runs the listener that was added, then the handler that was
\* assigned to onclick.
dispatch(handler(_, _), c, full, listener, onclick) ==
  LET first == IF listener THEN handler(c, full) ELSE c
  IN IF onclick THEN handler(first, full) ELSE first

OnlyButtons == UNCHANGED <<store, graph, gapAct, gapData, mitre, supp, riskModal, risques, charts>>

\* init: setupAddButtons(), and selectAnalysis() when it did not throw.
SetupButtons ==
  /\ ~buttons.setup
  /\ buttons' = [(IF buttons.inPage.others THEN rendersBind(setupAddButtons(buttons))
                  ELSE buttons) EXCEPT !.setup = TRUE]
  /\ carto' = IF buttons.inPage.others THEN strategiesRendered(cartoRendered(carto)) ELSE carto
  /\ OnlyButtons

\* A click on an analysis of the list: selectAnalysis renders the tables.
SelectRenders ==
  /\ buttons.setup
  /\ buttons' = rendersBind(buttons)
  /\ carto' = strategiesRendered(cartoRendered(carto))
  /\ OnlyButtons

\* One click on 'Ajouter une partie prenante'.
ClickAddPPC ==
  /\ buttons.setup
  /\ buttons.inPage.ppc
  /\ buttons.listener.ppc \/ buttons.onclick.ppc
  /\ Len(carto.stakeholders) + 2 <= MaxStakeholders
  /\ carto' = dispatch(addStakeholder, carto, storageFull,
                       buttons.listener.ppc, buttons.onclick.ppc)
  /\ buttons' = IF storageFull THEN buttons ELSE [buttons EXCEPT !.onclick.ppc = TRUE]
  /\ OnlyButtons

\* One click on 'Ajouter un scénario'.
ClickAddStrategy ==
  /\ buttons.setup
  /\ buttons.inPage.strategy
  /\ buttons.listener.strategy \/ buttons.onclick.strategy
  /\ Len(carto.strategies) + 2 <= MaxStrategies
  /\ carto' = dispatch(addStrategy, carto, storageFull,
                       buttons.listener.strategy, buttons.onclick.strategy)
  /\ buttons' = IF storageFull THEN buttons ELSE [buttons EXCEPT !.onclick.strategy = TRUE]
  /\ OnlyButtons

----------------------------------------------------------------------------

(* Specifications *)

\* Documents offered to the import button.
DocA == Obj(1, "A", Undef, <<>>, <<>>)
DocB == Obj(NoId, "B", "", <<>>, <<>>)

Docs ==
  {Garbage, Text(Null), Text(Num), Text(Arr(<<Num>>)), Text(DocA), Text(Arr(<<DocA, DocB>>))}

\* The analysis list and its storage.
NextStore ==
  \/ PageLoad
  \/ StorageFills
  \/ StorageFrees
  \/ NewAnalysis
  \/ \E index \in 0..(MaxAnalyses - 1) : ClickAnalysis(index)
  \/ \E confirmed \in BOOLEAN : DeleteAnalysis(confirmed)
  \/ \E doc \in Docs : ImportFile(doc)

SpecStore == Init /\ [][NextStore]_vars

\* The missions table of one stored analysis, one of whose missions was saved
\* by a version that gave missions no id.
LegacyAnalysis == Obj(1, "A", "", <<[id |-> NoId]>>, <<>>)

InitA1 ==
  /\ analyses = EmptyList
  /\ currentIndex = -1
  /\ lsAnalyses = Stringify(Arr(<<LegacyAnalysis>>))
  /\ lsCurrentId = NoId
  /\ storageFull = FALSE
  /\ live = FALSE
  /\ listLen = 0
  /\ rows = NoRows
  /\ exported = NoItem
  /\ last = "ok"
  /\ srov = NoCouple
  /\ ppc = NoStakeholder
  /\ IdleAteliers

NextA1 ==
  \/ PageLoad
  \/ StorageFills
  \/ StorageFrees
  \/ AddMission
  \/ \E k \in 1..MaxMissions : DeleteMission(k)
  \/ \E k \in 1..MaxMissions : AddEvent(k)
  \/ \E k \in 1..MaxMissions, j \in 1..MaxEvents : RemoveEvent(k, j)

SpecA1 == InitA1 /\ [][NextA1]_vars

\* The missions table of an analysis the "new analysis" button created: the
\* storage holds it as the handler saved it, and the page is loaded on it.
InitNewA1 ==
  /\ analyses = EmptyList
  /\ currentIndex = -1
  /\ lsAnalyses = Stringify(Arr(<<NewAnalysisObject(1)>>))
  /\ lsCurrentId = 1
  /\ storageFull = FALSE
  /\ live = FALSE
  /\ listLen = 0
  /\ rows = NoRows
  /\ exported = NoItem
  /\ last = "ok"
  /\ srov = NoCouple
  /\ ppc = NoStakeholder
  /\ IdleAteliers

SpecNewA1 == InitNewA1 /\ [][NextA1]_vars

\* Export and import of the analyses created or imported in the editor, from
\* an empty storage.
InitRoundTrip ==
  /\ analyses = EmptyList
  /\ currentIndex = -1
  /\ lsAnalyses = NoItem
  /\ lsCurrentId = NoId
  /\ storageFull = FALSE
  /\ live = FALSE
  /\ listLen = 0
  /\ rows = NoRows
  /\ exported = NoItem
  /\ last = "ok"
  /\ srov = NoCouple
  /\ ppc = NoStakeholder
  /\ IdleAteliers

NextRoundTrip ==
  \/ PageLoad
  \/ StorageFills
  \/ StorageFrees
  \/ NewAnalysis
  \/ \E index \in 0..(MaxAnalyses - 1) : ClickAnalysis(index)
  \/ DeleteAnalysis(TRUE)
  \/ ExportAnalysis
  \/ \E doc \in {Text(DocA), exported} \ {NoItem} : ImportFile(doc)

SpecRoundTrip == InitRoundTrip /\ [][NextRoundTrip]_vars

\* The store of a page that shows one analysis, left alone.
IdleStore ==
  /\ analyses = EmptyList
  /\ currentIndex = -1
  /\ lsAnalyses = NoItem
  /\ lsCurrentId = NoId
  /\ storageFull = FALSE
  /\ live = FALSE
  /\ listLen = 0
  /\ rows = NoRows
  /\ exported = NoItem
  /\ last = "ok"

\* The SROV table of a couple whose scores are any stored values.
InitSrov ==
  /\ IdleStore
  /\ \E m \in Stored, r \in Stored :
       srov = [item |-> [motivation |-> m, ressources |-> r], cell |-> NoCell, edge |-> NoCell]
  /\ ppc = NoStakeholder
  /\ IdleAteliers

NextSrov ==
  \/ RenderSROV
  \/ \E v \in Levels : SetMotivation(v)
  \/ \E v \in Levels : SetRessources(v)

SpecSrov == InitSrov /\ [][NextSrov]_vars

\* The cartography row of a stakeholder whose levels are any stored values.
InitPPCarto ==
  /\ IdleStore
  /\ srov = NoCouple
  /\ \E d \in Stored, p \in Stored, m \in Stored, c \in Stored :
       ppc = [item |-> [dependance |-> d, penetration |-> p, maturite |-> m, confiance |-> c],
              cells |-> NoCells]
  /\ IdleAteliers

NextPPCarto ==
  \/ RenderPPCarto
  \/ \E v \in Levels : SetDependance(v)
  \/ \E v \in Levels : SetPenetration(v)
  \/ \E v \in Levels : SetMaturite(v)
  \/ \E v \in Levels : SetConfiance(v)

SpecPPCarto == InitPPCarto /\ [][NextPPCarto]_vars

\* The graph of two missions with any events, whose supports are entered by hand.
GraphImpacts == {NaN, IntV(1), IntV(3)}

GraphEvents ==
  {<<>>} \cup {<<[missionId |-> m, impact |-> v]>> : m \in 1..2, v \in GraphImpacts}
         \cup {<<[missionId |-> m, impact |-> v], [missionId |-> n, impact |-> w]>> :
                 m \in 1..2, n \in 1..2, v \in GraphImpacts, w \in GraphImpacts}

InitGraph ==
  /\ IdleStore
  /\ srov = NoCouple
  /\ ppc = NoStakeholder
  /\ \E es \in GraphEvents :
       graph = [missions |-> <<[id |-> 1, supports |-> <<>>], [id |-> 2, supports |-> <<>>]>>,
                events |-> es, stats |-> <<>>, drawn |-> FALSE]
  /\ gapAct = NoGapActions
  /\ gapData = NoGapData
  /\ mitre = NoCatalogue
  /\ carto = NoCarto
  /\ IdleLater

NextGraph ==
  \/ UpdateAtelier1Graph
  \/ \E i \in 1..2 : AddSupport(i)
  \/ \E i \in 1..2, j \in 1..MaxSupports, name \in SupportNames : SetSupportName(i, j, name)
  \/ \E i \in 1..2, j \in 1..MaxSupports : RemoveSupport(i, j)

SpecGraph == InitGraph /\ [][NextGraph]_vars

\* The action rows of an analysis of two requirements, one of which has no id yet.
InitGapActions ==
  /\ IdleStore
  /\ srov = NoCouple
  /\ ppc = NoStakeholder
  /\ graph = NoGraph
  /\ gapData = NoGapData
  /\ mitre = NoCatalogue
  /\ carto = NoCarto
  /\ IdleLater
  /\ gapAct = [NoGapActions EXCEPT
                 !.gap = <<[id |-> 1, application |-> <<>>], [id |-> NoId, application |-> <<>>]>>]

NextGapActions ==
  \/ OpenImportModal
  \/ \E k \in 1..2 : ClickImportItem(k)
  \/ ApplyImportSelection
  \/ CloseImportModal
  \/ \E k \in 1..2, application \in Applications : SetApplication(k, application)

SpecGapActions == InitGapActions /\ [][NextGapActions]_vars

\* Records a file of requirements can hold: canonical keys (and an id),
\* aliases only, both, none.
RecCanonical ==
  [t |-> "obj", id |-> 1, domaine |-> "D", titre |-> "T", description |-> "X",
   application |-> "Non appliqué", justification |-> "J"]

RecAliases ==
  [t |-> "obj", domain |-> "d", title |-> "t", desc |-> "x", status |-> "s", justif |-> "j"]

RecBoth ==
  [t |-> "obj", id |-> 2, domaine |-> "D", domain |-> "d", titre |-> "", title |-> "t",
   description |-> "X", application |-> "A", status |-> "s", justif |-> "j"]

RecEmpty == [t |-> "obj"]

GapRecords == {RecCanonical, RecAliases, RecBoth, RecEmpty, Null, Num}

GapDocs ==
  {Garbage, Text(Null), Text(Num), Text(RecCanonical), Text(Arr(<<>>))}
    \cup {Text(Arr(<<r>>)) : r \in GapRecords}
    \cup {Text(Arr(<<r, q>>)) : r \in GapRecords, q \in GapRecords}

InitGapData ==
  /\ IdleStore
  /\ srov = NoCouple
  /\ ppc = NoStakeholder
  /\ graph = NoGraph
  /\ gapAct = NoGapActions
  /\ mitre = NoCatalogue
  /\ carto = NoCarto
  /\ IdleLater
  /\ \E b \in BOOLEAN : gapData = [NoGapData EXCEPT !.selected = b]

NextGapData ==
  \/ \E doc \in GapDocs : ImportGapFile(doc)
  \/ AddRequirement
  \/ \E k \in 1..MaxGap : DeleteRequirement(k)

SpecGapData == InitGapData /\ [][NextGapData]_vars

\* Catalogues of at most MaxRows lines under two headers: the six columns in
\* their usual order, and three columns in another order and another case.
HeaderUsual ==
  <<"Technique ID", "Technique Name", "Technique Description",
    "Mitigation ID", "Mitigation Name", "Mitigation Description">>

HeaderOther == <<"Mitigation ID", "Platform", "technique id">>

TechniqueCells == {"", "T1001", " T1001", "T1002"}

MitigationCells == {"", "M1", "M2"}

RowsUnder(header) ==
  IF header = HeaderUsual
    THEN {<<t, "N", "D", m, "O", "P">> : t \in TechniqueCells, m \in MitigationCells}
           \cup {<<t>> : t \in {" ", "T1002"}}
    ELSE {<<m, "Linux", t>> : t \in TechniqueCells, m \in MitigationCells}
           \cup {<<m>> : m \in {" ", "M1"}}

Catalogues(header) ==
  UNION {[1..n -> RowsUnder(header)] : n \in 0..MaxRows}

InitMitre ==
  /\ IdleStore
  /\ srov = NoCouple
  /\ ppc = NoStakeholder
  /\ graph = NoGraph
  /\ gapAct = NoGapActions
  /\ gapData = NoGapData
  /\ carto = NoCarto
  /\ IdleLater
  /\ \E header \in {HeaderUsual, HeaderOther} : \E lines \in Catalogues(header) :
       mitre = [header |-> header, rows |-> lines, library |-> <<>>, parsed |-> FALSE]

NextMitre == ParseMitreCsv

SpecMitre == InitMitre /\ [][NextMitre]_vars

\* An analysis with two supports, an event, a couple, two stakeholders, a
\* strategy and an action row of the first stakeholder, as selectAnalysis
\* rendered it.
InitCarto ==
  /\ IdleStore
  /\ srov = NoCouple
  /\ ppc = NoStakeholder
  /\ graph = NoGraph
  /\ gapAct = NoGapActions
  /\ gapData = NoGapData
  /\ mitre = NoCatalogue
  /\ carto = strategiesRendered(cartoRendered(
       [NoCarto EXCEPT
          !.supports = <<"S1", "S2">>,
          !.events = <<[id |-> 2, impact |-> 3]>>,
          !.couples = <<[id |-> 6]>>,
          !.stakeholders = <<[id |-> 4, supportIds |-> <<>>, valueIds |-> <<>>],
                             [id |-> 5, supportIds |-> <<>>, valueIds |-> <<>>]>>,
          !.strategies = <<[id |-> 7, intermediaireIds |-> <<>>, eventIds |-> <<>>]>>,
          !.actionsParties = <<[ppId |-> 4]>>]))
  /\ IdleLater

NextCarto ==
  \/ \E k \in 1..2 : DeleteStakeholder(k)
  \/ DeleteCouple(1)
  \/ \E j \in 1..2 : DeleteSupport(j)
  \/ DeleteEvent(1)
  \/ \E k \in 1..2, n \in 1..2 : AddSupportId(k, n)
  \/ \E k \in 1..2, sid \in {"S1", "S2"} : RemoveSupportId(k, sid)
  \/ \E k \in 1..2 : AddValueId(k, 1)
  \/ \E k \in 1..2 : RemoveValueId(k, 1)
  \/ \E n \in 1..2 : AddIntermediaire(1, n)
  \/ \E ppId \in {4, 5} : RemoveIntermediaire(1, ppId)
  \/ AddEventId(1, 1)
  \/ RemoveEventId(1, 2)
  \/ SelectAgain

SpecCarto == InitCarto /\ [][NextCarto]_vars

----------------------------------------------------------------------------
\* The supports of two missions, entered, copied, edited and removed by hand,
\* while the storage accepts writes or refuses them.
InitSupp ==
  /\ IdleStore
  /\ srov = NoCouple
  /\ ppc = NoStakeholder
  /\ graph = NoGraph
  /\ gapAct = NoGapActions
  /\ gapData = NoGapData
  /\ mitre = NoCatalogue
  /\ carto = NoCarto
  /\ supp = [NoSupports EXCEPT !.missions = <<<<>>, <<>>>>, !.shown = <<<<>>, <<>>>>]
  /\ riskModal = NoRiskModal
  /\ risques = NoRisques
  /\ charts = NoCharts
  /\ buttons = NoButtons

NextSupp ==
  \/ StorageFills
  \/ StorageFrees
  \/ \E i \in 1..2 : AddSupportObject(i)
  \/ \E i \in 1..2, input \in -1..MaxObjects : AddExistingSupport(i, input)
  \/ \E i \in 1..2, j \in 1..MaxSupports, name \in TypedNames : EditSupport(i, j, "name", name)
  \/ \E i \in 1..2, j \in 1..MaxSupports, text \in SupportTexts :
       EditSupport(i, j, "description", text)
  \/ \E i \in 1..2, j \in 1..MaxSupports, text \in SupportTexts :
       EditSupport(i, j, "responsable", text)
  \/ \E i \in 1..2, j \in 1..MaxSupports : RemoveSupportObject(i, j)

SpecSupp == InitSupp /\ [][NextSupp]_vars

----------------------------------------------------------------------------

\* A fetched text: one that could not be read, a header without lines, and a
\* catalogue of one technique.
Bodies ==
  {[ok |-> FALSE, header |-> <<>>, lines |-> <<>>]}
    \cup {[ok |-> TRUE, header |-> HeaderUsual, lines |-> l] :
            l \in {<<>>, <<<<"T1001", "N", "D", "M1", "O", "P">>>>}}

\* The techniques the catalogue import can be applied with: none selected, or one.
Selections == {<<>>, parseMitreCsv(HeaderUsual, <<<<"T1002", "N", "D", "", "", "">>>>)}

\* What the item 'ebiosMitreLibrary' can hold when the page is loaded.
LibraryItems == {NoItem, Garbage, Text(Null)} \cup {Text(Arr(s)) : s \in Selections}

\* The risk modal of a page loaded on any stored catalogue, opened twice at
\* most, while the catalogue import is applied and the storage fills.
InitRisk ==
  /\ IdleStore
  /\ srov = NoCouple
  /\ ppc = NoStakeholder
  /\ graph = NoGraph
  /\ gapAct = NoGapActions
  /\ gapData = NoGapData
  /\ mitre = NoCatalogue
  /\ carto = NoCarto
  /\ supp = NoSupports
  /\ \E stored \in LibraryItems :
       riskModal = [NoRiskModal EXCEPT !.lsLibrary = stored,
                                       !.library = loadMitreLibrary(stored)]
  /\ risques = NoRisques
  /\ charts = NoCharts
  /\ buttons = NoButtons

NextRisk ==
  \/ StorageFills
  \/ StorageFrees
  \/ OpenRiskModal
  \/ \E k \in 1..MaxRequests, outcome \in {"ok", "status", "network"} : FetchSettles(k, outcome)
  \/ \E k \in 1..MaxRequests, body \in Bodies : TextArrives(k, body)
  \/ \E selection \in Selections : ApplyMitreImport(selection)
  \/ CloseRiskModal

SpecRisk == InitRisk /\ [][NextRisk]_vars

\* A fetch that was started settles, and the text of a response is read or
\* fails to be read: the promise of each request is settled by the browser.
SpecRiskFair ==
  /\ SpecRisk
  /\ \A k \in 1..MaxRequests :
       /\ WF_vars(\E outcome \in {"ok", "status", "network"} : FetchSettles(k, outcome))
       /\ WF_vars(\E body \in Bodies : TextArrives(k, body))

----------------------------------------------------------------------------

\* The levels a select of the tables offers, of which two are followed.
ChosenLevels == {2, 4}

RiskNameInputs == {"R1", "R2"}

\* The scenarios of an analysis as it is loaded: none; one whose levels and
\* whose risk have no level; two, with an entry without a name, an entry with
\* one level of its own, and a name carried in both.
LoadedScenarios ==
  { <<>>,
    <<[vraisemblance |-> 0, gravite |-> 0,
       risks |-> <<[name |-> "R1", vraisemblance |-> 0, gravite |-> 0]>>]>>,
    <<[vraisemblance |-> 3, gravite |-> 1,
       risks |-> <<[name |-> "", vraisemblance |-> 4, gravite |-> 4],
                   [name |-> "R1", vraisemblance |-> 0, gravite |-> 2]>>],
      [vraisemblance |-> 1, gravite |-> 3,
       risks |-> <<[name |-> "R1", vraisemblance |-> 1, gravite |-> 0]>>]>> }

InitRisques ==
  /\ IdleStore
  /\ srov = NoCouple
  /\ ppc = NoStakeholder
  /\ graph = NoGraph
  /\ gapData = NoGapData
  /\ mitre = NoCatalogue
  /\ carto = NoCarto
  /\ supp = NoSupports
  /\ riskModal = NoRiskModal
  /\ charts = NoCharts
  /\ buttons = NoButtons
  /\ gapAct = NoGapActions
  /\ \E so \in LoadedScenarios : risques = [NoRisques EXCEPT !.so = so]

\* The risks of the scenarios are added and rated, and imported in the risk
\* action table.
NextRisques ==
  \/ OpenRisquesImport
  \/ \E k \in 1..2 : ClickImportItem(k)
  \/ ApplyRisquesSelection
  \/ CloseImportModal
  \/ \E s \in 1..2, level \in ChosenLevels : SetScenarioLevel(s, "vraisemblance", level)
  \/ \E s \in 1..2, level \in ChosenLevels : SetScenarioLevel(s, "gravite", level)
  \/ \E s \in 1..2, name \in RiskNameInputs : AddRiskToScenario(s, name)

SpecRisques == InitRisques /\ [][NextRisques]_vars

\* An analysis with two requirements and the risks of two scenarios, whose
\* action rows are imported, rated and given actions while the storage fills.
InitImport ==
  /\ IdleStore
  /\ srov = NoCouple
  /\ ppc = NoStakeholder
  /\ graph = NoGraph
  /\ gapData = NoGapData
  /\ mitre = NoCatalogue
  /\ carto = NoCarto
  /\ supp = NoSupports
  /\ riskModal = NoRiskModal
  /\ charts = NoCharts
  /\ buttons = NoButtons
  /\ gapAct = [NoGapActions EXCEPT
                 !.gap = <<[id |-> 1, application |-> <<>>], [id |-> NoId, application |-> <<>>]>>]
  /\ risques = [NoRisques EXCEPT !.so =
                  <<[vraisemblance |-> 3, gravite |-> 1,
                     risks |-> <<[name |-> "R1", vraisemblance |-> 0, gravite |-> 2]>>],
                    [vraisemblance |-> 1, gravite |-> 3,
                     risks |-> <<[name |-> "R2", vraisemblance |-> 1, gravite |-> 0]>>]>>]

NextImport ==
  \/ StorageFills
  \/ StorageFrees
  \/ OpenImportModal
  \/ OpenRisquesImport
  \/ \E k \in 1..2 : ClickImportItem(k)
  \/ ApplyImportSelection
  \/ ApplyRisquesSelection
  \/ CloseImportModal
  \/ \E i \in 1..2 : SetResidual(i, "residualV", 4)
  \/ \E i \in 1..2 : AddRisqueAction(i)
  \/ \E i \in 1..2 : AddGapAction(i)

SpecImport == InitImport /\ [][NextImport]_vars

----------------------------------------------------------------------------

\* An analysis with a mission and its support, named by a space, an event, a rated couple, a
\* stakeholder, two requirements, a scenario and one action row of each kind:
\* its data are edited and its charts are drawn in any order.
InitViews ==
  /\ IdleStore
  /\ srov = [item |-> [motivation |-> IntV(2), ressources |-> IntV(3)],
             cell |-> setPertinence([motivation |-> IntV(2), ressources |-> IntV(3)]),
             edge |-> NoCell]
  /\ ppc = [NoStakeholder EXCEPT !.item.dependance = IntV(3), !.item.maturite = StrV(2)]
  /\ graph = [missions |-> <<[id |-> 1, supports |-> <<" ">>]>>,
              events |-> <<[missionId |-> 1, impact |-> IntV(3)]>>,
              stats |-> <<>>, drawn |-> FALSE]
  /\ gapAct = [NoGapActions EXCEPT
                 !.gap = <<[id |-> 1, application |-> <<>>],
                           [id |-> 2, application |-> Non \o Applicable]>>,
                 !.actionsGap = <<[sourceId |-> 1, actions |-> <<BlankAction>>]>>]
  /\ gapData = NoGapData
  /\ mitre = NoCatalogue
  /\ carto = NoCarto
  /\ supp = NoSupports
  /\ riskModal = NoRiskModal
  /\ risques = [so |-> <<[vraisemblance |-> 0, gravite |-> 1,
                          risks |-> <<[name |-> "R1", vraisemblance |-> 0, gravite |-> 1]>>]>>,
                actionsRisques |-> <<[riskName |-> "R1", residualV |-> 1, residualG |-> 1,
                                      actions |-> <<>>]>>]
  /\ charts = NoCharts
  /\ buttons = NoButtons

NextViews ==
  \/ UpdateAtelier1Graph
  \/ UpdateGapChart
  \/ UpdateAtelier2Chart
  \/ \E cartoActive \in BOOLEAN : UpdateAtelier3Chart(cartoActive)
  \/ UpdateAtelier4Chart
  \/ RenderPlanActions
  \/ \E name \in SupportNames : SetSupportName(1, 1, name)
  \/ \E application \in {<<" ">> \o Accented, Partiellement \o Applique} :
       SetApplication(1, application)
  \/ SetMotivation(4)
  \/ \E level \in ChosenLevels : SetScenarioLevel(1, "vraisemblance", level)
  \/ AddRisqueAction(1)

SpecViews == InitViews /\ [][NextViews]_vars

----------------------------------------------------------------------------

\* The page holds the two buttons or not, and the buttons setupAddButtons
\* looks up without a test or not; the analysis has one stakeholder.
InitButtons ==
  /\ IdleStore
  /\ srov = NoCouple
  /\ ppc = NoStakeholder
  /\ graph = NoGraph
  /\ gapAct = NoGapActions
  /\ gapData = NoGapData
  /\ mitre = NoCatalogue
  /\ carto = [NoCarto EXCEPT
                !.stakeholders = <<[id |-> 1, supportIds |-> <<>>, valueIds |-> <<>>]>>]
  /\ supp = NoSupports
  /\ riskModal = NoRiskModal
  /\ risques = NoRisques
  /\ charts = NoCharts
  /\ \E others \in BOOLEAN, p \in BOOLEAN, s \in BOOLEAN :
       buttons = [NoButtons EXCEPT !.inPage = [others |-> others, ppc |-> p, strategy |-> s]]

NextButtons ==
  \/ StorageFills
  \/ StorageFrees
  \/ SetupButtons
  \/ SelectRenders
  \/ ClickAddPPC
  \/ ClickAddStrategy
  \/ DeleteStakeholder(1)

SpecButtons == InitButtons /\ [][NextButtons]_vars

----------------------------------------------------------------------------

(* Properties *)

\* C1: a click on the delete button of a mission row removes from the analysis
\* the mission the row shows, all the events whose missionId is the id of that
\* mission, and nothing else.
C1_DeleteMissionCascades ==
  [][\A k \in 1..MaxMissions :
       DeleteMission(k) =>
         LET mid == rows.ms[k].id
             a == Items[rows.a]
             b == analyses'.items[rows.a]
         IN /\ b.data.missions = SelectSeq(a.data.missions, LAMBDA m : m.id # mid)
            /\ b.data.events = SelectSeq(a.data.events, LAMBDA ev : ev.missionId # mid)]_vars

\* Documents that are no analysis and no list of analyses.
Malformed == {Garbage, Text(Null), Text(Num), Text(Arr(<<Num>>))}

\* C2: the import of a malformed document ends with the error shown to the
\* user and leaves the list in memory, the persisted list and the selection
\* as they were.
C2_MalformedImportRejected ==
  [][\A doc \in Malformed :
       ImportFile(doc) =>
         /\ last' = "alert"
         /\ analyses' = analyses
         /\ lsAnalyses' = lsAnalyses
         /\ currentIndex' = currentIndex]_vars

\* res is the analysis src, up to what the normalisation of selectAnalysis
\* fills in: a missing mission description, missing mission ids.
SameAnalysis(src, res) ==
  /\ IsObj(src) /\ IsObj(res)
  /\ res.id = src.id
  /\ res.title = src.title
  /\ res.data.events = src.data.events
  /\ res.data.missionDescription =
       (IF src.data.missionDescription = Undef THEN "" ELSE src.data.missionDescription)
  /\ Len(res.data.missions) = Len(src.data.missions)
  /\ \A i \in 1..Len(src.data.missions) :
       IF src.data.missions[i].id = NoId
         THEN res.data.missions[i].id # NoId
         ELSE res.data.missions[i] = src.data.missions[i]

C3_Reached_Sequence ==
  /\ live /\ Len(Items) = 2 /\ Items[1] = DocA /\ SameAnalysis(DocB, Items[2])
  /\ currentIndex = 1 /\ last = "ok"

EqualButFreshIds(src, res) ==
  /\ IsObj(res)
  /\ res.id = src.id
  /\ res.title = src.title
  /\ res.data.missionDescription = src.data.missionDescription
  /\ res.data.events = src.data.events
  /\ Len(res.data.missions) = Len(src.data.missions)
  /\ \A i \in 1..Len(src.data.missions) :
       src.data.missions[i].id # NoId => res.data.missions[i] = src.data.missions[i]

\* C4: when the file exported from an analysis of the editor is imported, the
\* analysis the import leaves last in the list, once the import has completed
\* with its normalisation, equals the exported one but for ids given to
\* missions that had none.
C4_RoundTrip ==
  [][(exported # NoItem /\ IsObj(Parse(exported)) /\ ImportFile(exported) /\ last' = "ok") =>
       /\ Len(analyses'.items) = Len(Items) + 1
       /\ EqualButFreshIds(Parse(exported), analyses'.items[Len(Items) + 1])]_vars

\* The bucket the claim gives a pertinence.
BucketOf(p) == IF p >= 13 THEN 4 ELSE IF p >= 9 THEN 3 ELSE IF p >= 5 THEN 2 ELSE 1

\* C9: for a rendered couple with motivation m and ressources r in 1..4 the
\* pertinence shown, in the table and on the chart, is m*r with the bucket 4
\* from 13, 3 from 9, 2 from 5 and 1 below; the bucket never decreases when m
\* or r grows; bucket(1,1) = 1, bucket(4,4) = 4, and 3 and 3 give 9, bucket 3.
C9_PertinenceBuckets ==
  /\ (srov.cell # NoCell /\ srov.item.motivation.n \in Levels
        /\ srov.item.ressources.n \in Levels) =>
       LET p == srov.item.motivation.n * srov.item.ressources.n
       IN /\ srov.cell = [p |-> p, bucket |-> BucketOf(p)]
          /\ (last = "ok" => srov.edge = [p |-> p, bucket |-> BucketOf(p)])
  /\ \A m \in Levels, r \in Levels, m2 \in Levels, r2 \in Levels :
       (m <= m2 /\ r <= r2) =>
         /\ pertinenceBucket(m * r) <= pertinenceBucket(m2 * r2)
         /\ chartPertinenceBucket(m * r) <= chartPertinenceBucket(m2 * r2)
  /\ pertinenceBucket(1 * 1) = 1 /\ pertinenceBucket(4 * 4) = 4
  /\ setPertinence([motivation |-> IntV(3), ressources |-> IntV(3)]) = [p |-> 9, bucket |-> 3]

\* C9 (case reached): the couple with motivation 3 and ressources 3 is shown
\* with pertinence 9 and bucket 3.
C9_Reached ==
  /\ srov.item = [motivation |-> IntV(3), ressources |-> IntV(3)]
  /\ srov.cell = [p |-> 9, bucket |-> 3]
  /\ srov.edge = [p |-> 9, bucket |-> 3]

\* C10: in a rendered cartography row, the four levels are nonzero integers,
\* exposition is dependance * penetration, niveau SSI is maturite * confiance
\* and is never zero, and the indice shown is exposition / niveau SSI to two
\* decimals; 4, 4, 1, 1 give 16, 1 and 16.
C10_DerivedCells ==
  ppc.cells # NoCells =>
    LET d == ppc.item.dependance
        p == ppc.item.penetration
        m == ppc.item.maturite
        c == ppc.item.confiance
        expo == ppc.cells.expo
        niveau == ppc.cells.niveau
        indice == ppc.cells.indice
    IN /\ \A x \in {d, p, m, c} : x.t = "int" /\ x.n # 0
       /\ expo = d.n * p.n
       /\ niveau = m.n * c.n
       /\ niveau # 0
       /\ 2 * Abs(100 * expo - indice * niveau) <= Abs(niveau)
       /\ (<<d.n, p.n, m.n, c.n>> = <<4, 4, 1, 1>>) =>
            (expo = 16 /\ niveau = 1 /\ indice = 1600)

\* C10 (case reached): a stakeholder stored with maturite 0 and no confiance
\* is rendered; the row 4, 4, 1, 1 shows 16, 1 and 16.00.
C10_Reached ==
  /\ ppc.item = [dependance |-> IntV(4), penetration |-> IntV(4),
                 maturite |-> IntV(1), confiance |-> IntV(1)]
  /\ ppc.cells = [expo |-> 16, niveau |-> 1, indice |-> 1600]

\* The stored list is corrupt: a text that does not parse, a value that is
\* not an array, an array with a null element.
Corrupt(item) ==
  \/ item = Garbage
  \/ /\ Parses(item)
     /\ \/ Parse(item).t # "arr"
        \/ Null \in Range(Parse(item).items)

\* C5: when the stored list is corrupt, a page load leaves analyses an empty
\* list and init ends without throwing.
C5_LoadFailsSoft ==
  [][(PageLoad /\ Corrupt(lsAnalyses)) => (analyses' = EmptyList /\ last' = "ok")]_vars

\* C6: when the page is reloaded while an analysis is selected, init selects
\* the analysis at the same position.
C6_SelectionSurvivesReload ==
  [][(live /\ IsObj(At(Items, currentIndex)) /\ PageLoad) =>
       currentIndex' = currentIndex]_vars

\* The operations of the user on the analysis list.
UserOperation ==
  \/ NewAnalysis
  \/ \E index \in 0..(MaxAnalyses - 1) : ClickAnalysis(index)
  \/ DeleteAnalysis(TRUE)
  \/ \E doc \in Docs : ImportFile(doc)

\* C7: when an operation of the user has finished, the persisted list is the
\* serialisation of the list in memory.
C7_PersistedAfterEveryOperation ==
  [][(UserOperation /\ last' = "ok") => lsAnalyses' = Stringify(analyses')]_vars

\* C8: while the storage refuses writes, a click on an item of a list of
\* analyses selects it, renders the list again and ends without error, the
\* stored id staying as it was; the handlers that call saveAnalyses end with
\* the exception (the import with its alert), the stored list staying as it
\* was, and the list in memory keeps what the handler did to it.
C8_WriteFailures ==
  [][storageFull =>
       /\ \A index \in 0..(MaxAnalyses - 1) :
            (ClickAnalysis(index) /\ \A i \in 1..Len(Items) : IsObj(Items[i])) =>
              /\ last' = "ok"
              /\ currentIndex' = index
              /\ listLen' = Len(Items)
              /\ lsCurrentId' = lsCurrentId
              /\ lsAnalyses' = lsAnalyses
       /\ NewAnalysis =>
            /\ last' = "throw"
            /\ Len(analyses'.items) = Len(Items) + 1
            /\ SubSeq(analyses'.items, 1, Len(Items)) = Items
            /\ analyses'.items[Len(Items) + 1].title = "Nouvelle analyse"
            /\ lsAnalyses' = lsAnalyses
       /\ (DeleteAnalysis(TRUE) /\ currentIndex >= 0 /\ currentIndex < Len(Items)) =>
            /\ last' = "throw"
            /\ Len(analyses'.items) = Len(Items) - 1
            /\ \A i \in 1..(Len(Items) - 1) :
                 analyses'.items[i] = Items[IF i <= currentIndex THEN i ELSE i + 1]
            /\ lsAnalyses' = lsAnalyses
       /\ \A doc \in Docs :
            (ImportFile(doc) /\ Parses(doc)) =>
              /\ last' = "alert"
              /\ Parse(doc).t = "arr" => analyses'.items = Parse(doc).items
              /\ Parse(doc).t \in {"obj", "null"} => analyses'.items = Append(Items, Parse(doc))
              /\ lsAnalyses' = lsAnalyses]_vars

\* C8 (case reached): with the storage refusing writes, the second analysis,
\* which has an id, was selected and the list rendered, without error, and the
\* stored id is still another one.
C8_Reached ==
  /\ live /\ storageFull /\ last = "ok"
  /\ currentIndex = 1
  /\ IsObj(At(Items, currentIndex))
  /\ At(Items, currentIndex).id # NoId
  /\ lsCurrentId # At(Items, currentIndex).id
  /\ listLen = Len(Items)

\* C11: once a row of the SROV table or of the cartography is rendered, each
\* of its scores is an integer of 1..4, whatever the document carried.
C11_ScoresInRange ==
  /\ srov.cell # NoCell =>
       \A x \in {srov.item.motivation, srov.item.ressources} : x.t = "int" /\ x.n \in 1..4
  /\ ppc.cells # NoCells =>
       \A x \in {ppc.item.dependance, ppc.item.penetration, ppc.item.maturite,
                 ppc.item.confiance} : x.t = "int" /\ x.n \in 1..4

\* The missions of the graph that list a support of this name.
MissionsReferencing(name) ==
  {i \in 1..Len(graph.missions) :
     \E j \in 1..Len(graph.missions[i].supports) : trim(graph.missions[i].supports[j]) = name}

SetMax(S) == IF S = {} THEN 0 ELSE CHOOSE x \in S : \A y \in S : y <= x

\* The greatest impact over the events of a mission, 0 when it has none.
missionImpact(mid) ==
  SetMax({OrZero(parseInt(graph.events[k].impact)) :
            k \in {k \in 1..Len(graph.events) : graph.events[k].missionId = mid}})

\* C12: in a drawn graph, the degree of every support name is the number of
\* missions that list it (a mission listing it twice counts once) and its
\* maxImpact is the greatest missionImpact over those missions.
C12_SupportStats ==
  graph.drawn =>
    \A name \in SupportNames \ {"", " "} :
      MissionsReferencing(name) # {} =>
        /\ MapHas(graph.stats, name)
        /\ MapGet(graph.stats, name).degree = Cardinality(MissionsReferencing(name))
        /\ MapGet(graph.stats, name).maxImpact =
             SetMax({missionImpact(graph.missions[i].id) : i \in MissionsReferencing(name)})

\* The application, lower-cased and without its diacritics, begins with 'applique'.
BeginsWithApplique(application) ==
  startsWith(stripDiacritics(toLowerCase(application)), Applique)

ApplicationOf(gap, id) == gap[CHOOSE i \in 1..Len(gap) : gap[i].id = id].application

OfferedByName ==
  { <<"P", "a", "r", "t", "i", "e", "l", "l", "e", "m", "e", "n", "t", " ",
      "a", "p", "p", "l", "i", "q", "u", "é">>,
    <<"N", "o", "n", " ", "a", "p", "p", "l", "i", "q", "u", "é">>,
    <<"N", "o", "n", " ", "a", "p", "p", "l", "i", "c", "a", "b", "l", "e">> }

\* C13: the modal of the GAP action import offers no requirement whose
\* application, lower-cased and without diacritics, begins with 'applique', and
\* offers every requirement that is partially applied, not applied or not
\* applicable; the rows the confirm button creates are rows of offered
\* requirements only.
C13_AppliedNotImported ==
  [][ /\ OpenImportModal =>
           /\ \A id \in Range(gapAct'.items) :
                /\ id \in GapIds(gapAct'.gap)
                /\ ~BeginsWithApplique(ApplicationOf(gapAct'.gap, id))
           /\ \A i \in 1..Len(gapAct.gap) :
                gapAct.gap[i].application \in OfferedByName =>
                  gapAct'.gap[i].id \in Range(gapAct'.items)
      /\ ApplyImportSelection =>
           \A r \in Range(gapAct'.actionsGap) \ Range(gapAct.actionsGap) :
             /\ r.sourceId \in GapIds(gapAct.gap)
             /\ ~BeginsWithApplique(ApplicationOf(gapAct.gap, r.sourceId))
    ]_vars

\* The modal is open on a list that leaves an applied requirement out, an
\* offered requirement is selected, and an earlier import has created a row.
C13_Reached ==
  /\ ModalOpen
  /\ \E i \in 1..Len(gapAct.gap) :
       /\ BeginsWithApplique(gapAct.gap[i].application)
       /\ gapAct.gap[i].id \notin Range(gapAct.items)
  /\ \E i \in 1..Len(gapAct.gap) :
       /\ gapAct.gap[i].application \in OfferedByName
       /\ gapAct.gap[i].id \in Range(gapAct.selections)
  /\ gapAct.actionsGap # <<>>

\* The value a requirement takes for a key: that of the key, or else that of
\* its alias, or else the empty string.
Taken(obj, key, alias) ==
  IF Get(obj, key) \notin {Undef, ""} THEN obj[key]
  ELSE IF Get(obj, alias) \notin {Undef, ""} THEN obj[alias]
  ELSE ""

\* C14: an import of k records that completes appends exactly k requirements
\* after the existing ones, in the order of the file; each takes its five
\* fields from the canonical key, or else the alias, or else '', and gets an id
\* that no requirement and no record of the file carries.
C14_BulkImportAppends ==
  [][\A doc \in GapDocs :
       ImportGapFile(doc) /\ ~gapData'.alerted =>
         LET items == Parse(doc).items
             n == Len(gapData.gap)
         IN /\ Len(gapData'.gap) = n + Len(items)
            /\ SubSeq(gapData'.gap, 1, n) = gapData.gap
            /\ gapData'.saved = gapData'.gap
            /\ \A i \in 1..Len(items) :
                 LET req == gapData'.gap[n + i]
                 IN /\ req.domaine = Taken(items[i], "domaine", "domain")
                    /\ req.titre = Taken(items[i], "titre", "title")
                    /\ req.description = Taken(items[i], "description", "desc")
                    /\ req.application = Taken(items[i], "application", "status")
                    /\ req.justification = Taken(items[i], "justification", "justif")
                    /\ req.id \notin ReqIds(gapData.gap) \cup DocRecordIds(items)
                    /\ \A j \in 1..Len(items) : j # i => gapData'.gap[n + j].id # req.id
    ]_vars

\* Two records, with an id and with aliases, were appended after a requirement.
C14_Reached ==
  /\ Len(gapData.gap) = 3
  /\ gapData.gap[2].domaine = "D" /\ gapData.gap[2].titre = "t" /\ gapData.gap[2].id \notin {1, 2}
  /\ gapData.gap[3].domaine = "d" /\ gapData.gap[3].application = "s"
  /\ gapData.saved = gapData.gap
  /\ ~gapData.alerted

\* The document is not a sequence of objects, or no analysis is selected.
Rejected(doc) ==
  \/ ~Parses(doc)
  \/ Parse(doc).t # "arr"
  \/ \E i \in 1..Len(Parse(doc).items) : Parse(doc).items[i].t # "obj"
  \/ ~gapData.selected

\* C15: an import that is rejected or fails part-way leaves data.gap as it
\* was, in memory and in the persisted document.
C15_BulkImportAllOrNothing ==
  [][\A doc \in GapDocs :
       ImportGapFile(doc) /\ (Rejected(doc) \/ gapData'.alerted) =>
         gapData'.gap = gapData.gap /\ gapData'.saved = gapData.saved
    ]_vars

\* The technique id and the mitigation id of line k of the catalogue.
TechniqueOf(k) == Read(mitre.header, mitre.rows[k]).tid

MitigationOf(k) == Read(mitre.header, mitre.rows[k]).mid

\* The lines of a technique that carry a mitigation id, in the order of the file.
LinesOf(tid) ==
  SelectSeq([k \in 1..Len(mitre.rows) |-> k],
            LAMBDA k : TechniqueOf(k) = tid /\ MitigationOf(k) # "")

FirstLine(tid) ==
  CHOOSE k \in 1..Len(mitre.rows) :
    TechniqueOf(k) = tid /\ \A j \in 1..(k - 1) : TechniqueOf(j) # tid

\* C16: the parsed library has exactly one entry per distinct non-empty
\* technique id, in order of first appearance, and the mitigations of an entry
\* are, in the order of the lines, one per line of that technique that has a
\* non-empty mitigation id.
C16_CatalogueGrouped ==
  mitre.parsed =>
    LET lib == mitre.library
    IN /\ {lib[i].id : i \in 1..Len(lib)} = {TechniqueOf(k) : k \in 1..Len(mitre.rows)} \ {""}
       /\ \A i \in 1..Len(lib) : \A j \in 1..Len(lib) :
            i < j => lib[i].id # lib[j].id /\ FirstLine(lib[i].id) < FirstLine(lib[j].id)
       /\ \A i \in 1..Len(lib) :
            LET lines == LinesOf(lib[i].id)
            IN /\ Len(lib[i].mitigations) = Len(lines)
               /\ \A n \in 1..Len(lines) : lib[i].mitigations[n].id = MitigationOf(lines[n])

\* Two lines of T1001 with different mitigation ids gave one entry with both.
C16_Reached ==
  /\ mitre.parsed
  /\ Len(mitre.rows) >= 2
  /\ TechniqueOf(1) = "T1001" /\ TechniqueOf(2) = "T1001"
  /\ MitigationOf(1) = "M1" /\ MitigationOf(2) = "M2"
  /\ \E i \in 1..Len(mitre.library) :
       /\ mitre.library[i].id = "T1001"
       /\ Len(mitre.library[i].mitigations) = 2

\* The entities of after are entities of before, or before followed by new
\* ones, and each that had an id has that id still.
IdsKept(before, after) ==
  IF Len(after) >= Len(before)
    THEN \A k \in 1..Len(before) : before[k].id # NoId => after[k].id = before[k].id
    ELSE \E f \in [1..Len(after) -> 1..Len(before)] :
           /\ \A k \in 1..Len(after) : \A l \in 1..Len(after) : k < l => f[k] < f[l]
           /\ \A k \in 1..Len(after) :
                before[f[k]].id # NoId => after[k].id = before[f[k]].id

OtherThan(c, field) == [f \in (DOMAIN c) \ {field, "supportOptions", "missionOptions",
                                             "ppOptions", "eventOptions"} |-> c[f]]

\* C18: the deletion of a stakeholder, of a couple, of a support or of an event
\* removes that entity and leaves every other collection as it was, the ids
\* that referred to the entity included.
C18_DeletesDoNotCascade ==
  [][/\ \A k \in 1..2 :
          DeleteStakeholder(k) =>
            /\ carto'.stakeholders = SeqRemoveAt(carto.stakeholders, k)
            /\ OtherThan(carto', "stakeholders") = OtherThan(carto, "stakeholders")
     /\ DeleteCouple(1) =>
          /\ carto'.couples = SeqRemoveAt(carto.couples, 1)
          /\ OtherThan(carto', "couples") = OtherThan(carto, "couples")
     /\ \A j \in 1..2 :
          DeleteSupport(j) =>
            /\ carto'.supports = SeqRemoveAt(carto.supports, j)
            /\ OtherThan(carto', "supports") = OtherThan(carto, "supports")
     /\ DeleteEvent(1) =>
          /\ carto'.events = SeqRemoveAt(carto.events, 1)
          /\ OtherThan(carto', "events") = OtherThan(carto, "events")
    ]_vars

\* A stakeholder, a support and the event were deleted while a strategy, the
\* action row and the other stakeholder still refer to them.
C18_Reached ==
  /\ Len(carto.stakeholders) = 1
  /\ Len(carto.strategies) = 1
  /\ \E ppId \in Range(carto.strategies[1].intermediaireIds) :
       ppId \notin Range(IdsOf(carto.stakeholders))
  /\ \E evId \in Range(carto.strategies[1].eventIds) : evId \notin Range(IdsOf(carto.events))
  /\ \E sid \in Range(carto.stakeholders[1].supportIds) : sid \notin Range(carto.supports)
  /\ \E row \in Range(carto.actionsParties) : row.ppId \notin Range(IdsOf(carto.stakeholders))

\* C19: a reference that no longer resolves is shown as its raw key in every
\* view: the tags of a stakeholder, the tags of a strategy, the row of a party
\* action and the plan; and the severity of a strategy is computed without it.
C19_DanglingShownAsKey ==
  /\ \A k \in 1..Len(carto.strategies) :
       /\ \A ppId \in Range(carto.strategies[k].intermediaireIds) :
            ppId \notin Range(IdsOf(carto.stakeholders)) =>
              IntermediaireTag(carto, ppId) = RawKey(ppId)
       /\ \A evId \in Range(carto.strategies[k].eventIds) :
            evId \notin Range(IdsOf(carto.events)) => EventTag(carto, evId) = RawKey(evId)
       /\ Gravite(carto, carto.strategies[k]) \in 0..4
  /\ \A k \in 1..Len(carto.stakeholders) :
       /\ \A sid \in Range(carto.stakeholders[k].supportIds) :
            sid \notin Range(carto.supports) => SupportTag(carto, sid).name = sid
       /\ \A vid \in Range(carto.stakeholders[k].valueIds) :
            vid # 1 => ValueTag(carto, vid) = RawKey(vid)
  /\ \A k \in 1..Len(carto.actionsParties) :
       carto.actionsParties[k].ppId \notin Range(IdsOf(carto.stakeholders)) =>
         /\ PartyActionRow(carto, carto.actionsParties[k]) = RawKey(carto.actionsParties[k].ppId)
         /\ PlanSource(carto, carto.actionsParties[k]) = RawKey(carto.actionsParties[k].ppId)

NoDuplicate(list) == Cardinality(Range(list)) = Len(list)

\* The list is as it was, or has one new id placed last, or has lost one id
\* while the others kept their order.
SetStep(before, after) ==
  \/ after = before
  \/ \E id \in Range(after) \ Range(before) : after = Append(before, id)
  \/ \E id \in Range(before) :
       /\ after = SelectSeq(before, LAMBDA x : x # id)
       /\ Len(after) = Len(before) - 1

\* C20: the supportIds and valueIds of a stakeholder and the intermediaireIds
\* and eventIds of a strategy never hold an id twice; a handler adds one id,
\* not yet present, at the end, or removes one id and keeps the order of the
\* others.
C20_AssociationsAreSets ==
  [][/\ \A k \in 1..Len(carto'.stakeholders) :
          /\ NoDuplicate(carto'.stakeholders[k].supportIds)
          /\ NoDuplicate(carto'.stakeholders[k].valueIds)
     /\ \A k \in 1..Len(carto'.strategies) :
          /\ NoDuplicate(carto'.strategies[k].intermediaireIds)
          /\ NoDuplicate(carto'.strategies[k].eventIds)
     /\ Len(carto'.stakeholders) = Len(carto.stakeholders) =>
          \A k \in 1..Len(carto.stakeholders) :
            /\ SetStep(carto.stakeholders[k].supportIds, carto'.stakeholders[k].supportIds)
            /\ SetStep(carto.stakeholders[k].valueIds, carto'.stakeholders[k].valueIds)
     /\ \A k \in 1..Len(carto.strategies) :
          /\ SetStep(carto.strategies[k].intermediaireIds, carto'.strategies[k].intermediaireIds)
          /\ SetStep(carto.strategies[k].eventIds, carto'.strategies[k].eventIds)
    ]_vars

\* Ids were added, one was removed and added again: it is last, after the
\* one that was added after it.
C20_Reached ==
  /\ Len(carto.strategies) = 1
  /\ carto.strategies[1].intermediaireIds = <<5, 4>>
  /\ \E k \in 1..Len(carto.stakeholders) : carto.stakeholders[k].supportIds = <<"S2", "S1">>

\* C26: a click on the delete button of a mission row removes no mission
\* other than the one the row was rendered for: every mission of the analysis
\* that is not the mission of the row is still there after the click, also
\* when the table was not rendered again after a write that failed.
C26_DeletesTheRowsMission ==
  [][\A k \in 1..MaxMissions :
       DeleteMission(k) =>
         LET mid == rows.ms[k].id
             before == Items[rows.a].data.missions
             after == analyses'.items[rows.a].data.missions
         IN \A i \in 1..Len(before) :
              before[i].id # mid => \E j \in 1..Len(after) : after[j].id = before[i].id]_vars

\* C27: the current index is -1 or an index of the list of analyses at which
\* an analysis object stands.
C27_SelectionValid ==
  \/ currentIndex = -1
  \/ /\ analyses.t = "arr"
     /\ currentIndex \in 0..(Len(analyses.items) - 1)
     /\ IsObj(analyses.items[currentIndex + 1])

\* C28: a confirmed click on the delete button with an analysis selected
\* removes that analysis and keeps the others in their order; the first of
\* them is then selected and its id is the stored selected id, or nothing is
\* selected when none is left. A declined confirmation, or a click with no
\* analysis selected, leaves the list, the stored list and the selection as
\* they were.
C28_DeleteCurrentAnalysis ==
  [][\A confirmed \in BOOLEAN :
       DeleteAnalysis(confirmed) =>
         IF confirmed /\ currentIndex >= 0
           THEN LET after == analyses'.items
                IN /\ Len(after) = Len(Items) - 1
                   /\ \A i \in 1..Len(after) :
                        LET src == IF i <= currentIndex THEN Items[i] ELSE Items[i + 1]
                        IN after[i] = src \/ (i = 1 /\ SameAnalysis(src, after[i]))
                   /\ IF after = <<>>
                        THEN currentIndex' = -1
                        ELSE /\ currentIndex' = 0
                             /\ IsObj(after[1])
                             /\ lsCurrentId' = after[1].id
           ELSE UNCHANGED <<analyses, lsAnalyses, currentIndex>>]_vars

\* C29: every event of an analysis in the list has the id of one of the
\* missions of that analysis as its missionId.
C29_EventsHaveTheirMission ==
  live =>
    \A i \in 1..Len(Items) :
      IsObj(Items[i]) =>
        \A e \in 1..Len(Items[i].data.events) :
          \E m \in 1..Len(Items[i].data.missions) :
            Items[i].data.missions[m].id = Items[i].data.events[e].missionId

\* The supports of mission i as they read: the fields of its objects, in order.
SupportsOf(sp, i) ==
  [k \in 1..Len(sp.missions[i]) |->
     [name |-> sp.heap[sp.missions[i][k]].name,
      description |-> sp.heap[sp.missions[i][k]].description,
      responsable |-> sp.heap[sp.missions[i][k]].responsable]]

\* C21: typing in the name, the description or the responsable of a support
\* in the row of a mission leaves the supports of every other mission as they
\* were, the support it was copied from included, after any sequence of
\* '+ Support', '+ Support existant', edits and removals.
C21_SupportsNotShared ==
  [][\A i \in 1..2, j \in 1..MaxSupports,
        field \in {"name", "description", "responsable"},
        value \in TypedNames \cup SupportTexts :
       EditSupport(i, j, field, value) =>
         \A m \in 1..Len(supp.missions) :
           m # i => SupportsOf(supp', m) = SupportsOf(supp, m)]_vars

\* C21 (case reached): mission 2 holds a copy of a support of mission 1, and
\* the two now differ in a field, so one of them was edited after the copy.
C21_Reached ==
  /\ Len(supp.missions) = 2
  /\ \E c \in Range(supp.missions[2]), o \in Range(supp.missions[1]) :
       /\ supp.heap[c].from = o
       /\ supp.heap[c].description # supp.heap[o].description
       /\ supp.heap[c].name # supp.heap[o].name

\* Every request to open the risk modal has shown it once at most, and once
\* when it is done.
ShownOnce ==
  \A k \in 1..Len(riskModal.reqs) :
    /\ riskModal.reqs[k].shows <= 1
    /\ riskModal.reqs[k].pc = "done" => riskModal.reqs[k].shows = 1

\* Every request ends: the modal is shown for it.
NeverHangs ==
  \A k \in 1..MaxRequests :
    [](k \in 1..Len(riskModal.reqs) =>
         <>(k \in 1..Len(riskModal.reqs) /\ riskModal.reqs[k].pc = "done"))

LevelsOfName(so, name, field) ==
  {OrLevel(so[s].risks[r][field], OrLevel(so[s][field], 1)) :
     <<s, r>> \in {p \in (1..Len(so)) \X (1..MaxRisks) :
                     /\ p[2] <= Len(so[p[1]].risks)
                     /\ so[p[1]].risks[p[2]].name = name}}

\* C23: a row a confirmed import of risks adds is seeded with the greatest
\* vraisemblance and the greatest gravite over the entries of the scenarios
\* that carry its name (an entry without a level counts with the level of its
\* scenario, and with 1 when neither has one), and with 1 and 1 when no entry
\* carries the name.
C23_ResidualRollup ==
  [][ApplyRisquesSelection =>
       \A row \in Range(risques'.actionsRisques) \ Range(risques.actionsRisques) :
         LET V == LevelsOfName(risques.so, row.riskName, "vraisemblance")
             G == LevelsOfName(risques.so, row.riskName, "gravite")
         IN /\ row.residualV = (IF V = {} THEN 1 ELSE SetMax(V))
            /\ row.residualG = (IF G = {} THEN 1 ELSE SetMax(G))
            /\ row.actions = <<>>]_vars

\* C23 (case reached): a row was seeded from two entries of one name, its
\* vraisemblance with the level of a scenario that is above the first entry's
\* and its gravite with the level of the second entry.
C23_Reached ==
  \E i \in 1..Len(risques.actionsRisques) :
    LET row == risques.actionsRisques[i]
        riskMap == riskMapFirst(Flatten([s \in 1..Len(risques.so) |-> entriesOf(risques.so[s])]), <<>>)
    IN /\ Cardinality(LevelsOfName(risques.so, row.riskName, "vraisemblance")) >= 2
       /\ row.residualV = SetMax(LevelsOfName(risques.so, row.riskName, "vraisemblance"))
       /\ row.residualG = SetMax(LevelsOfName(risques.so, row.riskName, "gravite"))
       /\ riskOf(riskMap, row.riskName).vraisemblance < row.residualV
       /\ ~ModalOpen

KeysOf(list, key) == [i \in 1..Len(list) |-> list[i][key]]

IsPrefix(before, after) ==
  Len(before) <= Len(after) /\ SubSeq(after, 1, Len(before)) = before

\* C30: through the steps of the import modal (open, toggle, confirm, cancel)
\* actionsGap holds one row at most per sourceId and actionsRisques one row at
\* most per riskName; a confirm leaves every row there was as it was, with its
\* actions, and adds no row for a key a row carries; a cancel changes no
\* action row and resets the selection and the type of the import.
C30_ImportIdempotent ==
  /\ [](NoDuplicate(KeysOf(gapAct.actionsGap, "sourceId"))
        /\ NoDuplicate(KeysOf(risques.actionsRisques, "riskName")))
  /\ [][(ApplyImportSelection \/ ApplyRisquesSelection) =>
          /\ IsPrefix(gapAct.actionsGap, gapAct'.actionsGap)
          /\ IsPrefix(risques.actionsRisques, risques'.actionsRisques)
          /\ Len(gapAct'.actionsGap) - Len(gapAct.actionsGap)
               = Cardinality(IF gapAct.type = "gap"
                               THEN Range(gapAct.selections)
                                      \ Range(KeysOf(gapAct.actionsGap, "sourceId"))
                               ELSE {})
          /\ Len(risques'.actionsRisques) - Len(risques.actionsRisques)
               = Cardinality(IF gapAct.type = "risques"
                               THEN Range(gapAct.selections)
                                      \ Range(KeysOf(risques.actionsRisques, "riskName"))
                               ELSE {})]_vars
  /\ [][CloseImportModal =>
          /\ gapAct'.actionsGap = gapAct.actionsGap
          /\ risques' = risques
          /\ gapAct'.selections = <<>>
          /\ gapAct'.type = "null"]_vars
  /\ [][((~ModalOpen /\ ModalOpen') \/ \E k \in 1..2 : ClickImportItem(k)) =>
          /\ gapAct'.actionsGap = gapAct.actionsGap
          /\ risques' = risques]_vars

\* C30 (case reached): requirements and risks were imported, a risk row was
\* rated and given an action, and the modal is open again on the risks with
\* the risk of that row and another selected, while the storage is full.
C30_Reached ==
  /\ gapAct.type = "risques"
  /\ Len(gapAct.selections) = 2
  /\ Len(risques.actionsRisques) = 2
  /\ risques.actionsRisques[1].actions # <<>>
  /\ risques.actionsRisques[1].residualV = 4
  /\ gapAct.actionsGap # <<>>
  /\ storageFull

\* A step of one of the projections.
Projection ==
  \/ UpdateAtelier1Graph
  \/ UpdateGapChart
  \/ UpdateAtelier2Chart
  \/ \E cartoActive \in BOOLEAN : UpdateAtelier3Chart(cartoActive)
  \/ UpdateAtelier4Chart
  \/ RenderPlanActions

\* C24: updateAtelier1Graph, updateGapChart, updateAtelier2Chart,
\* updateAtelier3Chart, updateAtelier4Chart and renderPlanActions, however
\* often they run, leave the list of analyses, the selection, the storage and
\* every field of the missions, events, couple, stakeholder, requirements,
\* scenarios and action rows as they were.
C24_ProjectionsKeepData ==
  [][Projection =>
       /\ analyses' = analyses
       /\ currentIndex' = currentIndex
       /\ lsAnalyses' = lsAnalyses
       /\ lsCurrentId' = lsCurrentId
       /\ graph'.missions = graph.missions
       /\ graph'.events = graph.events
       /\ srov'.item = srov.item
       /\ ppc'.item = ppc.item
       /\ gapAct'.gap = gapAct.gap
       /\ gapAct'.actionsGap = gapAct.actionsGap
       /\ risques' = risques
       /\ carto' = carto
       /\ supp' = supp]_vars

\* C24 (case reached): every projection has run on data that were edited: a
\* support that was named, a requirement counted as partly
\* applied, a scenario of vraisemblance 4 and an action of a risk row are in
\* what is drawn.
C24_Reached ==
  /\ charts.drawn = {"gap", "atelier3", "atelier4", "plan"}
  /\ graph.drawn
  /\ graph.missions[1].supports = <<"S2">>
  /\ graph.stats # <<>>
  /\ srov.edge = ChartEdge(srov.item)
  /\ srov.item.motivation = IntV(4)
  /\ charts.gap["partiel"] = 1
  /\ charts.atelier3.n = 1
  /\ charts.atelier4[4] = 1
  /\ Len(charts.plan) = 2

\* C25: one click on 'Ajouter une partie prenante' appends exactly one
\* stakeholder, and one click on 'Ajouter un scénario' exactly one strategy,
\* also when the button was in the page when setupAddButtons added its
\* listener.
C25_OneClickOneRow ==
  /\ [][ClickAddPPC =>
          /\ Len(carto'.stakeholders) = Len(carto.stakeholders) + 1
          /\ SubSeq(carto'.stakeholders, 1, Len(carto.stakeholders)) = carto.stakeholders]_vars
  /\ [][ClickAddStrategy =>
          /\ Len(carto'.strategies) = Len(carto.strategies) + 1
          /\ SubSeq(carto'.strategies, 1, Len(carto.strategies)) = carto.strategies]_vars

====
